---- MODULE Spec2Model ----
(***************************************************************************)
(* Transactional execution engine of storeit-rs: the three backend         *)
(* transaction managers (libsql, mysql_async, tokio_postgres), their       *)
(* task-local binding store, and the connection resolution of the          *)
(* repositories, over an abstract database with transactions and           *)
(* savepoints.                                                             *)
(***************************************************************************)
EXTENDS Integers, Sequences, FiniteSets, TLC

(***************************************************************************)
(* Bounds of the exploration.                                              *)
(***************************************************************************)
\* nesting of execute calls: work running inside work
MaxDepth == 2
\* rows written by repository operations in one behaviour
MaxRows == 1
\* statements (or connection acquisitions) that fail in one behaviour
MaxFaults == 1
\* savepoints one transaction holds at a time, stale ones included
MaxSavepoints == 1
\* the same two bounds for the program that only nests transactional calls
MaxNesting == 3
MaxNestedSavepoints == 3

(***************************************************************************)
(* Program constants.                                                      *)
(***************************************************************************)
\* busy_timeout applied by the libsql manager when the definition has none
DefaultBusyMs == 1000
\* a sample Some(timeout) of a TransactionDefinition, in milliseconds
SampleTimeoutMs == 250

Chains == {1, 2}
Backends == {"libsql", "mysql", "postgres"}
\* the managers a TransactionTemplate can wrap: the three backends and
\* DefaultTransactionManager
Managers == Backends \cup {"default"}
Propagation == {"Required", "RequiresNew", "Supports", "NotSupported", "Never", "Nested"}
Isolation == {"Default", "ReadCommitted", "RepeatableRead", "Serializable"}
\* Option<Duration>: -1 is None, otherwise milliseconds
NoTimeout == 0 - 1
Timeouts == {NoTimeout, SampleTimeoutMs}

TransactionDefinition ==
    [propagation : Propagation, isolation : Isolation,
     read_only : BOOLEAN, timeout : Timeouts]

DefaultDefinition ==
    [propagation |-> "Required", isolation |-> "Default",
     read_only |-> FALSE, timeout |-> NoTimeout]

(***************************************************************************)
(* Results: RepoResult<R>.                                                 *)
(***************************************************************************)
NoResult == [tag |-> "None", why |-> "", src |-> 0]
OkResult == [tag |-> "Ok", why |-> "", src |-> 0]
\* RepoError::backend(e): the Backend kind wrapping a cause
BackendError(why, k) == [tag |-> "Backend", why |-> why, src |-> k]
\* the errors the work of call k may return
WorkErrors(k) == {[tag |-> "NotFound", why |-> "work", src |-> k]}
IsErr(r) == r.tag \notin {"None", "Ok"}

(***************************************************************************)
(* Statements.  sql is the statement text up to its numeric argument n     *)
(* (savepoint number, timeout value); fatal says whether the code          *)
(* propagates the statement's failure (map_err(..)?) or drops it (.ok()).  *)
(***************************************************************************)
Stmt(sql, n, fatal) == [sql |-> sql, n |-> n, fatal |-> fatal]

BeginSqls == {"BEGIN", "BEGIN DEFERRED", "BEGIN IMMEDIATE", "BEGIN EXCLUSIVE",
              "START TRANSACTION"}
IsolationSqls == {"SET TRANSACTION ISOLATION LEVEL READ COMMITTED",
                  "SET TRANSACTION ISOLATION LEVEL REPEATABLE READ",
                  "SET TRANSACTION ISOLATION LEVEL SERIALIZABLE"}
SavepointSqls == {"SAVEPOINT sp", "RELEASE SAVEPOINT sp", "ROLLBACK TO SAVEPOINT sp"}
EndSqls == {"COMMIT", "ROLLBACK"}

(***************************************************************************)
(* The database.  A connection is [inTx, pending, sps, readOnly]: whether  *)
(* a transaction is open on it, the rows written in that transaction, the  *)
(* open savepoints (name number and the snapshot of pending taken when     *)
(* the savepoint was set), and its read-only mode ("no", "session" set by  *)
(* a pragma, "tx" set for the current transaction).  com is the set of     *)
(* committed rows, the rows a fresh connection sees.                       *)
(***************************************************************************)
NoConn == 0
\* owner is the chain whose manager acquired the connection (0: none)
FreshConnState ==
    [inTx |-> FALSE, pending |-> {}, sps |-> <<>>, readOnly |-> "no", owner |-> 0]

\* index of the most recent open savepoint named sp<n>, 0 when there is none
RECURSIVE LastSavepoint(_, _, _)
LastSavepoint(sps, n, i) ==
    IF i = 0 THEN 0
    ELSE IF sps[i].n = n THEN i
    ELSE LastSavepoint(sps, n, i - 1)

EndTx(cs) ==
    [cs EXCEPT !.inTx = FALSE, !.pending = {}, !.sps = <<>>,
               !.readOnly = IF cs.readOnly = "tx" THEN "no" ELSE cs.readOnly]

\* MySQL deletes an older savepoint of the same name when a new one is set;
\* SQLite and PostgreSQL keep it underneath the new one
Unnamed(sps, n) == SelectSeq(sps, LAMBDA sp : sp.n # n)

\* effect of a statement that succeeds, on its connection and the committed rows
ExecStmt(db, s) ==
    LET cs == db.cs IN
    CASE s.sql \in BeginSqls ->
           [db EXCEPT !.cs = [cs EXCEPT !.inTx = TRUE]]
      [] s.sql = "PRAGMA query_only = ON" ->
           [db EXCEPT !.cs = [cs EXCEPT !.readOnly = "session"]]
      [] s.sql = "PRAGMA query_only = OFF" ->
           [db EXCEPT !.cs = [cs EXCEPT !.readOnly = "no"]]
      [] s.sql = "SET TRANSACTION READ ONLY" /\ cs.inTx /\ db.backend = "postgres" ->
           [db EXCEPT !.cs = [cs EXCEPT !.readOnly = "tx"]]
      [] s.sql = "SAVEPOINT sp" /\ cs.inTx ->
           [db EXCEPT !.cs = [cs EXCEPT !.sps =
                Append(IF db.backend = "mysql" THEN Unnamed(cs.sps, s.n) ELSE cs.sps,
                       [n |-> s.n, snap |-> cs.pending])]]
      [] s.sql = "RELEASE SAVEPOINT sp" /\ LastSavepoint(cs.sps, s.n, Len(cs.sps)) > 0 ->
           [db EXCEPT !.cs = [cs EXCEPT !.sps =
                SubSeq(cs.sps, 1, LastSavepoint(cs.sps, s.n, Len(cs.sps)) - 1)]]
      [] s.sql = "ROLLBACK TO SAVEPOINT sp" /\ LastSavepoint(cs.sps, s.n, Len(cs.sps)) > 0 ->
           LET i == LastSavepoint(cs.sps, s.n, Len(cs.sps)) IN
           [db EXCEPT !.cs = [cs EXCEPT !.pending = cs.sps[i].snap,
                                        !.sps = SubSeq(cs.sps, 1, i)]]
      [] s.sql = "COMMIT" /\ cs.inTx ->
           [db EXCEPT !.cs = EndTx(cs), !.com = db.com \cup cs.pending]
      [] s.sql = "ROLLBACK" /\ cs.inTx ->
           [db EXCEPT !.cs = EndTx(cs)]
      [] OTHER -> db

\* a statement the database itself rejects although the driver delivered it
Rejected(db, s) ==
    \/ s.sql \in {"RELEASE SAVEPOINT sp", "ROLLBACK TO SAVEPOINT sp"}
       /\ LastSavepoint(db.cs.sps, s.n, Len(db.cs.sps)) = 0

(***************************************************************************)
(* Run the statements stmts[i..] in order on one connection.  fail is the  *)
(* set of positions whose statement fails in the driver; a failed          *)
(* statement has no effect, and a failed fatal statement ends the run      *)
(* (the ? operator returns from execute).  The result carries the          *)
(* database, the log entries and whether the run was aborted.              *)
(***************************************************************************)
RECURSIVE RunStmts(_, _, _, _, _)
RunStmts(db, stmts, fail, i, acc) ==
    IF i > Len(stmts) THEN [db |-> db, entries |-> acc, aborted |-> FALSE]
    ELSE LET s == stmts[i]
             bad == (i \in fail) \/ Rejected(db, s)
             e == [sql |-> s.sql, n |-> s.n, ok |-> ~bad]
         IN IF bad /\ s.fatal
            THEN [db |-> db, entries |-> Append(acc, e), aborted |-> TRUE]
            ELSE RunStmts(IF bad THEN db ELSE ExecStmt(db, s), stmts, fail,
                          i + 1, Append(acc, e))

(***************************************************************************)
(* libsql manager: LibsqlTransactionManager::execute.                      *)
(***************************************************************************)
\* a manager that takes the write lock for ReadCommitted as well
begin_sql_eager(isolation) ==
    CASE isolation = "Default" -> "BEGIN DEFERRED"
      [] isolation \in {"ReadCommitted", "RepeatableRead"} -> "BEGIN IMMEDIATE"
      [] isolation = "Serializable" -> "BEGIN EXCLUSIVE"

begin_sql(isolation) ==
    CASE isolation \in {"Default", "ReadCommitted"} -> "BEGIN DEFERRED"
      [] isolation = "RepeatableRead" -> "BEGIN IMMEDIATE"
      [] isolation = "Serializable" -> "BEGIN EXCLUSIVE"

\* a manager that also rejects a Supports call made inside a transaction
LibsqlDecisionSupportsRejects(propagation, active) ==
    IF propagation \in {"NotSupported", "Supports"} /\ ~active THEN "direct"
    ELSE IF propagation \in {"Never", "Supports"} /\ active THEN "reject"
    ELSE IF ~active THEN "start"
    ELSE IF propagation \in {"RequiresNew", "Nested"} THEN "savepoint"
    ELSE "join"

\* a manager that lets a Never call join the active transaction
LibsqlDecisionNeverJoins(propagation, active) ==
    IF propagation \in {"NotSupported", "Supports"} /\ ~active THEN "direct"
    ELSE IF ~active THEN "start"
    ELSE IF propagation \in {"RequiresNew", "Nested"} THEN "savepoint"
    ELSE "join"

\* the branch execute takes: run work directly, reject, start a transaction,
\* open a savepoint, or join
LibsqlDecision(propagation, active) ==
    IF propagation \in {"NotSupported", "Supports"} /\ ~active THEN "direct"
    ELSE IF propagation = "Never" /\ active THEN "reject"
    ELSE IF ~active THEN "start"
    ELSE IF propagation \in {"RequiresNew", "Nested"} THEN "savepoint"
    ELSE "join"

LibsqlStartStmts(def) ==
    <<Stmt("CONNECT", 0, TRUE)>>
    \o (IF def.read_only THEN <<Stmt("PRAGMA query_only = ON", 0, FALSE)>> ELSE <<>>)
    \o <<Stmt("PRAGMA busy_timeout",
              IF def.timeout = NoTimeout THEN DefaultBusyMs ELSE def.timeout, FALSE),
         Stmt(begin_sql(def.isolation), 0, TRUE)>>

LibsqlSavepointStmts(depth) == <<Stmt("SAVEPOINT sp", depth + 1, FALSE)>>

LibsqlEndStmts(def, ok, stack) ==
    <<Stmt(IF ok THEN "COMMIT" ELSE "ROLLBACK", 0, TRUE)>>
    \o (IF def.read_only THEN <<Stmt("PRAGMA query_only = OFF", 0, FALSE)>> ELSE <<>>)

\* a manager that releases the savepoint after rolling back to it
LibsqlSavepointEndStmtsAlsoReleases(depth, ok) ==
    IF ok THEN <<Stmt("RELEASE SAVEPOINT sp", depth, FALSE)>>
    ELSE <<Stmt("ROLLBACK TO SAVEPOINT sp", depth, FALSE),
           Stmt("RELEASE SAVEPOINT sp", depth, FALSE)>>

LibsqlSavepointEndStmts(depth, ok) ==
    <<Stmt(IF ok THEN "RELEASE SAVEPOINT sp" ELSE "ROLLBACK TO SAVEPOINT sp", depth, FALSE)>>

\* TX_STACK after the end statements of the call that created the transaction
LibsqlStackAfterEnd(stack, aborted) ==
    IF aborted \/ stack = <<>> THEN stack ELSE SubSeq(stack, 1, Len(stack) - 1)

(***************************************************************************)
(* mysql_async manager: MysqlAsyncTransactionManager::execute.             *)
(***************************************************************************)
\* a manager that suspends the active transaction for a RequiresNew call and
\* starts a second one
MysqlDecisionRequiresNewStarts(propagation, in_tx) ==
    IF propagation \in {"NotSupported", "Supports"} /\ ~in_tx THEN "direct"
    ELSE IF propagation = "Never" /\ in_tx THEN "reject"
    ELSE IF ~in_tx \/ propagation = "RequiresNew" THEN "start"
    ELSE IF propagation = "Nested" THEN "savepoint"
    ELSE "join"

MysqlDecision(propagation, in_tx) ==
    IF propagation \in {"NotSupported", "Supports"} /\ ~in_tx THEN "direct"
    ELSE IF propagation = "Never" /\ in_tx THEN "reject"
    ELSE IF ~in_tx THEN "start"
    ELSE IF propagation \in {"RequiresNew", "Nested"} THEN "savepoint"
    ELSE "join"

MysqlIsolationStmts(isolation) ==
    CASE isolation = "Default" -> <<>>
      [] isolation = "ReadCommitted" ->
           <<Stmt("SET TRANSACTION ISOLATION LEVEL READ COMMITTED", 0, FALSE)>>
      [] isolation = "RepeatableRead" ->
           <<Stmt("SET TRANSACTION ISOLATION LEVEL REPEATABLE READ", 0, FALSE)>>
      [] isolation = "Serializable" ->
           <<Stmt("SET TRANSACTION ISOLATION LEVEL SERIALIZABLE", 0, FALSE)>>

MysqlStartStmts(def) ==
    <<Stmt("CONNECT", 0, TRUE), Stmt("START TRANSACTION", 0, FALSE)>>
    \o MysqlIsolationStmts(def.isolation)
    \o (IF def.read_only THEN <<Stmt("SET TRANSACTION READ ONLY", 0, FALSE)>> ELSE <<>>)
    \o (IF def.timeout # NoTimeout
        THEN <<Stmt("SET SESSION innodb_lock_wait_timeout", def.timeout \div 1000, FALSE)>>
        ELSE <<>>)

\* a manager that names the savepoint after the depth before the increment
MysqlSavepointStmtsOldDepth(depth) == <<Stmt("SAVEPOINT sp", depth, FALSE)>>

MysqlSavepointStmts(depth) == <<Stmt("SAVEPOINT sp", depth + 1, FALSE)>>

\* MY_TX_CONN is taken first; without a connection nothing is issued
MysqlEndStmts(def, ok, stack) ==
    IF stack = <<>> THEN <<>>
    ELSE <<Stmt(IF ok THEN "COMMIT" ELSE "ROLLBACK", 0, FALSE)>>

\* a manager that always closed sp1
MysqlSavepointEndStmtsFirstName(depth, ok) ==
    <<Stmt(IF ok THEN "RELEASE SAVEPOINT sp" ELSE "ROLLBACK TO SAVEPOINT sp", 1, FALSE)>>

MysqlSavepointEndStmts(depth, ok) ==
    <<Stmt(IF ok THEN "RELEASE SAVEPOINT sp" ELSE "ROLLBACK TO SAVEPOINT sp", depth, FALSE)>>

\* a manager that leaves the connection in its slot when the transaction ends
MysqlStackAfterEndKeeps(stack, aborted) == stack

\* MY_TX_CONN.take(): the slot is emptied before COMMIT or ROLLBACK is issued
MysqlStackAfterEnd(stack, aborted) == <<>>

(***************************************************************************)
(* tokio_postgres manager: TokioPostgresTransactionManager::execute.       *)
(***************************************************************************)
isolation_sql(isolation) ==
    CASE isolation = "Default" -> <<>>
      [] isolation = "ReadCommitted" ->
           <<Stmt("SET TRANSACTION ISOLATION LEVEL READ COMMITTED", 0, FALSE)>>
      [] isolation = "RepeatableRead" ->
           <<Stmt("SET TRANSACTION ISOLATION LEVEL REPEATABLE READ", 0, FALSE)>>
      [] isolation = "Serializable" ->
           <<Stmt("SET TRANSACTION ISOLATION LEVEL SERIALIZABLE", 0, FALSE)>>

\* a manager that opens a savepoint for a Supports call inside a transaction
PgDecisionSupportsNests(propagation, active) ==
    IF propagation \in {"NotSupported", "Supports"} /\ ~active THEN "direct"
    ELSE IF propagation = "Never" /\ active THEN "reject"
    ELSE IF ~active THEN "start"
    ELSE IF propagation \in {"RequiresNew", "Nested", "Supports"} THEN "savepoint"
    ELSE "join"

PgDecision(propagation, active) ==
    IF propagation \in {"NotSupported", "Supports"} /\ ~active THEN "direct"
    ELSE IF propagation = "Never" /\ active THEN "reject"
    ELSE IF ~active THEN "start"
    ELSE IF propagation \in {"RequiresNew", "Nested"} THEN "savepoint"
    ELSE "join"

\* a manager that sets read-only mode before the isolation level
PgStartStmtsReadOnlyFirst(def) ==
    <<Stmt("CONNECT", 0, TRUE), Stmt("BEGIN", 0, TRUE)>>
    \o (IF def.read_only THEN <<Stmt("SET TRANSACTION READ ONLY", 0, FALSE)>> ELSE <<>>)
    \o isolation_sql(def.isolation)
    \o (IF def.timeout # NoTimeout
        THEN <<Stmt("SET LOCAL statement_timeout", def.timeout, FALSE)>>
        ELSE <<>>)

\* a manager for which a hint that cannot be applied is fatal
PgStartStmtsStrictHints(def) ==
    <<Stmt("CONNECT", 0, TRUE), Stmt("BEGIN", 0, TRUE)>>
    \o (IF def.isolation = "Default" THEN <<>>
        ELSE <<Stmt("SET TRANSACTION ISOLATION LEVEL SERIALIZABLE", 0, TRUE)>>)
    \o (IF def.read_only THEN <<Stmt("SET TRANSACTION READ ONLY", 0, TRUE)>> ELSE <<>>)
    \o (IF def.timeout # NoTimeout
        THEN <<Stmt("SET LOCAL statement_timeout", def.timeout, TRUE)>>
        ELSE <<>>)

PgStartStmts(def) ==
    <<Stmt("CONNECT", 0, TRUE), Stmt("BEGIN", 0, TRUE)>>
    \o isolation_sql(def.isolation)
    \o (IF def.read_only THEN <<Stmt("SET TRANSACTION READ ONLY", 0, FALSE)>> ELSE <<>>)
    \o (IF def.timeout # NoTimeout
        THEN <<Stmt("SET LOCAL statement_timeout", def.timeout, FALSE)>>
        ELSE <<>>)

PgSavepointStmts(depth) == <<Stmt("SAVEPOINT sp", depth + 1, FALSE)>>

\* a manager that commits whatever work returned
PgEndStmtsAlwaysCommits(def, ok, stack) == <<Stmt("COMMIT", 0, TRUE)>>

PgEndStmts(def, ok, stack) ==
    <<Stmt(IF ok THEN "COMMIT" ELSE "ROLLBACK", 0, TRUE)>>

\* a manager that returned the failure of RELEASE / ROLLBACK TO with ?
PgSavepointEndStmtsStrict(depth, ok) ==
    <<Stmt(IF ok THEN "RELEASE SAVEPOINT sp" ELSE "ROLLBACK TO SAVEPOINT sp", depth, TRUE)>>

PgSavepointEndStmts(depth, ok) ==
    <<Stmt(IF ok THEN "RELEASE SAVEPOINT sp" ELSE "ROLLBACK TO SAVEPOINT sp", depth, FALSE)>>

PgStackAfterEnd(stack, aborted) ==
    IF aborted \/ stack = <<>> THEN stack ELSE SubSeq(stack, 1, Len(stack) - 1)

(***************************************************************************)
(* DefaultTransactionManager::execute: f(TransactionContext::new()).await  *)
(***************************************************************************)
\* a default manager that refuses to run a Never call
DefaultDecisionRefusesNever(propagation, active) ==
    IF propagation = "Never" THEN "reject" ELSE "direct"

\* _def is ignored: work runs directly whatever the definition
DefaultDecision(propagation, active) == "direct"

(***************************************************************************)
(* Dispatch on the manager in use.                                         *)
(***************************************************************************)
Decision(b, propagation, active) ==
    CASE b = "libsql" -> LibsqlDecision(propagation, active)
      [] b = "mysql" -> MysqlDecision(propagation, active)
      [] b = "postgres" -> PgDecision(propagation, active)
      [] b = "default" -> DefaultDecision(propagation, active)

StartStmts(b, def) ==
    CASE b = "libsql" -> LibsqlStartStmts(def)
      [] b = "mysql" -> MysqlStartStmts(def)
      [] b = "postgres" -> PgStartStmts(def)

SavepointStmts(b, depth) ==
    CASE b = "libsql" -> LibsqlSavepointStmts(depth)
      [] b = "mysql" -> MysqlSavepointStmts(depth)
      [] b = "postgres" -> PgSavepointStmts(depth)

EndStmts(b, def, ok, stack) ==
    CASE b = "libsql" -> LibsqlEndStmts(def, ok, stack)
      [] b = "mysql" -> MysqlEndStmts(def, ok, stack)
      [] b = "postgres" -> PgEndStmts(def, ok, stack)

SavepointEndStmts(b, depth, ok) ==
    CASE b = "libsql" -> LibsqlSavepointEndStmts(depth, ok)
      [] b = "mysql" -> MysqlSavepointEndStmts(depth, ok)
      [] b = "postgres" -> PgSavepointEndStmts(depth, ok)

StackAfterEnd(b, stack, aborted) ==
    CASE b = "libsql" -> LibsqlStackAfterEnd(stack, aborted)
      [] b = "mysql" -> MysqlStackAfterEnd(stack, aborted)
      [] b = "postgres" -> PgStackAfterEnd(stack, aborted)

\* a manager that leaves the savepoint depth as it is when a savepoint ends
DepthAfterSavepointEndKept(depth) == depth

\* SP_DEPTH after the savepoint of a call has been released or rolled back
DepthAfterSavepointEnd(depth) == IF depth > 0 THEN depth - 1 ELSE depth

\* the connection a transaction is pushed on: a Vec for libsql and postgres,
\* a single Option slot for mysql
StackPush(b, stack, conn) ==
    IF b = "mysql" THEN <<conn>> ELSE Append(stack, conn)

\* a manager that returns the result of work whatever the end statements did
OutcomeOfWorkOnly(result, aborted, k) == result

\* what execute returns after the end statements: the ? operator replaces
\* work's result by the Backend error of a failed fatal statement
Outcome(result, aborted, k) ==
    IF aborted THEN BackendError("statement", k) ELSE result

(***************************************************************************)
(* Repository connection resolution (find_by_id, find_by_field, insert,    *)
(* update, delete_by_id): the top of the task-local stack, else the        *)
(* connection bound at construction, else a fresh one (NoConn).            *)
(***************************************************************************)
\* a repository that prefers the connection it was constructed with
ResolveConnBoundFirst(b, st, bound) ==
    IF b \in {"libsql", "postgres"} /\ bound # NoConn THEN bound
    ELSE IF st.init /\ st.stack # <<>> THEN st.stack[Len(st.stack)]
    ELSE NoConn

ResolveConn(b, st, bound) ==
    IF st.init /\ st.stack # <<>> THEN st.stack[Len(st.stack)]
    ELSE IF b \in {"libsql", "postgres"} /\ bound # NoConn THEN bound
    ELSE NoConn

(***************************************************************************)
(* Repository construction.  LibsqlRepository::new binds no connection,    *)
(* MysqlAsyncRepository::new keeps only the pool, and                      *)
(* TokioPostgresRepository::new owns the client it is given (client).      *)
(* Manager::repository(ctx) binds the top of the stack when there is one   *)
(* (libsql, postgres); fresh is the client postgres connects otherwise.    *)
(***************************************************************************)
NewRepository(b, client) == IF b = "postgres" THEN client ELSE NoConn

\* TransactionContext has no payload (PhantomData), so every token is the
\* same value; origin and level tell where a token comes from: the ctx that
\* execute handed to the work of the call at that level, or one the caller
\* made with TransactionContext::new() (level 0)
TransactionContext(origin, level) == [origin |-> origin, level |-> level]

\* a manager that binds the transaction's connection only for a token that
\* execute handed out
LibsqlManagerRepositoryTrustsToken(ctx, st, fresh) ==
    IF ctx.origin = "execute" /\ st.init /\ st.stack # <<>>
    THEN st.stack[Len(st.stack)] ELSE NoConn

\* repository(&self, _ctx, adapter): the token is not looked at
LibsqlManagerRepository(ctx, st, fresh) ==
    IF st.init /\ st.stack # <<>> THEN st.stack[Len(st.stack)] ELSE NoConn

MysqlManagerRepository(ctx, st, fresh) == NoConn

PgManagerRepository(ctx, st, fresh) ==
    IF st.init /\ st.stack # <<>> THEN st.stack[Len(st.stack)] ELSE fresh

ManagerRepository(b, ctx, st, fresh) ==
    CASE b = "libsql" -> LibsqlManagerRepository(ctx, st, fresh)
      [] b = "mysql" -> MysqlManagerRepository(ctx, st, fresh)
      [] b = "postgres" -> PgManagerRepository(ctx, st, fresh)

(***************************************************************************)
(* State.                                                                  *)
(*   backend    the manager (and repository) implementation in use         *)
(*   enabled    the chains (tasks) that call execute; the others only use  *)
(*              their repository                                           *)
(*   defs       the TransactionDefinitions the application passes          *)
(*   store      per chain, the task-local scope: whether it is             *)
(*              initialised, the connection stack and the savepoint depth  *)
(*   frames     per chain, the execute calls whose work is running, each   *)
(*              with the local variables execute keeps across work         *)
(*   last       what execute did in the last step: entered work or         *)
(*              returned, with the statements it issued, or a write of     *)
(*              work; NoEvent at the start                                 *)
(*   conns      the open connections acquired by the managers              *)
(*   committed  the committed rows                                         *)
(*   writes     the number of rows written by work through repositories    *)
(*   faults     the number of statements that have failed in the driver    *)
(*   repo       per chain, the connection bound to the repository the      *)
(*              chain made before it called execute (NoConn: none)         *)
(*   status     the TransactionStatus objects the program has made         *)
(*   mutex      the tokio Mutex around the MySQL transaction connection:   *)
(*              who holds it and who waits for it, in order of arrival     *)
(***************************************************************************)
VARIABLES backend, enabled, defs, store, frames, last, conns, committed, writes, faults,
          repo, template, status, mutex

vars == <<backend, enabled, defs, store, frames, last, conns, committed, writes, faults,
          repo, template, status, mutex>>

\* Mutex::new(conn): nobody holds it, nobody waits
NoHolder == "none"
MutexNew == [holder |-> NoHolder, queue |-> <<>>]

\* how many TransactionStatus objects the program makes
MaxStatus == 3
StatusIds == 1..MaxStatus
\* an object not made yet
NoStatus == [made |-> FALSE, new |-> FALSE, rollback_only |-> FALSE]

\* a store shared by all tasks, as a process-wide static would be
TaskLocalShared(c) == 1

\* tokio::task_local!: every task (chain) has its own TX_STACK and SP_DEPTH
TaskLocal(c) == c

\* a task without the task-local scope (TX_STACK.try_with fails)
NoScope == [init |-> FALSE, stack |-> <<>>, depth |-> 0]
\* TX_STACK.scope(RefCell::new(Vec::new()), SP_DEPTH.scope(RefCell::new(0), fut))
NewScope == [init |-> TRUE, stack |-> <<>>, depth |-> 0]

Last(seq) == seq[Len(seq)]
Pop(seq) == SubSeq(seq, 1, Len(seq) - 1)
Range(seq) == {seq[i] : i \in 1..Len(seq)}

\* the failures the driver may still produce among n statements
FaultSets(n) ==
    {F \in SUBSET (1..n) : F = {} \/ Cardinality(F) <= MaxFaults - faults}
\* how many of the statements that were run failed in the driver
NumFailed(entries, fail) == Cardinality(fail \cap (1..Len(entries)))

\* what execute keeps across the call of work: created_tx, used_savepoint,
\* the connection it acquired and def.read_only; with them what the call saw
\* on entry and the rows its own work wrote.  level is the nesting depth of
\* the call, which also names it in the errors it makes.  bound is the
\* connection bound to the repository work uses: the one the chain made
\* before execute, until work asks the manager for one.
NewCall(c, def, st, decision) ==
    [chain |-> c, level |-> Len(frames[c]) + 1, root |-> ~store[TaskLocal(c)].init,
     decision |-> decision, read_only |-> def.read_only,
     created_tx |-> FALSE, used_savepoint |-> FALSE, conn |-> NoConn,
     stackAtEntry |-> st.stack, depthAtEntry |-> st.depth, rows |-> {},
     bound |-> repo[c]]

\* the definition of a call is known when it is made, not when it returns
NoDef == [propagation |-> "unknown"]
NoEvent == [event |-> "none"]

\* execute has run its prelude and calls work
Enter(call, def, entries, st) ==
    [event |-> "enter", call |-> call, def |-> def, invoked |-> 1,
     stmts |-> entries, stack |-> st.stack, depth |-> st.depth,
     workResult |-> NoResult, result |-> NoResult]

\* execute returns result; invoked tells whether work has run
Exit(call, def, invoked, entries, st, workResult, result) ==
    [event |-> "exit", call |-> call, def |-> def, invoked |-> invoked,
     stmts |-> entries, stack |-> st.stack, depth |-> st.depth,
     workResult |-> workResult, result |-> result]

\* work of call wrote row through a repository: whether the write was applied,
\* whether its connection was inside a transaction, and whether that
\* connection was the top of the stack
Write(call, row, applied, inTx, onTop) ==
    [event |-> "write", call |-> call, row |-> row, applied |-> applied,
     inTx |-> inTx, onTop |-> onTop]

\* a repository operation outside every execute call has no call
NoCall == [decision |-> "none", rows |-> {}, created_tx |-> FALSE]

\* how a repository operation of chain c resolved its connection: the top
\* of the stack it saw (NoConn: none), the connection bound to the
\* repository, the connection chosen, and whether work was running
Resolution(c, st, bound, conn) ==
    [chain |-> c, inside |-> frames[c] # <<>>,
     top |-> IF st.init /\ st.stack # <<>> THEN Last(st.stack) ELSE NoConn,
     bound |-> bound, conn |-> conn]

\* a repository read: the rows it returned and whether its connection was
\* inside a transaction
Read(call, seen, inTx) ==
    [event |-> "read", call |-> call, seen |-> seen, inTx |-> inTx]

\* Manager::repository, called with the token ctx, returned a repository
\* bound to bound
Vended(c, ctx, st, bound) ==
    [event |-> "repository", chain |-> c, inside |-> frames[c] # <<>>, ctx |-> ctx,
     stack |-> st.stack, bound |-> bound]

\* the scope as the body of execute sees it: created by the root call
ScopeOnEntry(c) ==
    IF backend = "default" THEN store[TaskLocal(c)]
    ELSE IF store[TaskLocal(c)].init THEN store[TaskLocal(c)] ELSE NewScope
\* a manager that pushed the connection before BEGIN had succeeded
ScopeOnErrorPushes(st, conn) == [st EXCEPT !.stack = Append(@, conn)]

\* the scope when execute returns before work is invoked: the early returns
\* come before the push and before any change of the depth
ScopeOnError(st, conn) == st

\* a scope that outlived the root call
ScopeOnExitKeeps(call, st) == st

\* the scope after a call returns: the root call's scope ends with it
ScopeOnExit(call, st) == IF call.root THEN NoScope ELSE st

\* connections still held by a stack or by a running call; the others are dropped
Held(st, fr, rp) ==
    UNION {Range(st[c].stack) : c \in Chains}
    \cup UNION {{fr[c][i].conn : i \in 1..Len(fr[c])} : c \in Chains}
    \cup UNION {{fr[c][i].bound : i \in 1..Len(fr[c])} : c \in Chains}
    \cup {rp[c] : c \in Chains}
Keep(cn, st, fr, rp) == [i \in (DOMAIN cn) \cap Held(st, fr, rp) |-> cn[i]]
\* the identity of a newly acquired connection
NewConn == CHOOSE i \in 1..(Cardinality(DOMAIN conns) + 1) : i \notin DOMAIN conns

\* definitions that differ from the default in the propagation only
PlainDefinitions ==
    {d \in TransactionDefinition :
        d.isolation = "Default" /\ ~d.read_only /\ d.timeout = NoTimeout}

\* the definitions of a program whose calls all want a transaction: each
\* nested call joins it or opens a savepoint in it
NestedDefinitions ==
    {d \in PlainDefinitions : d.propagation \in {"Required", "RequiresNew", "Nested"}}

\* definitions that carry every hint: isolation, read-only mode and timeout
HintDefinitions ==
    {d \in TransactionDefinition :
        d.isolation = "Serializable" /\ d.read_only /\ d.timeout = SampleTimeoutMs}

\* TransactionTemplate::new(manager): defaults is TransactionDefinition::default();
\* method, def and result record the last method called on the template,
\* the definition it was given and what it returned
TransactionTemplateNew ==
    [defaults |-> DefaultDefinition, method |-> "new", def |-> NoDef,
     result |-> NoResult]

\* every chain has made its repository before any execute call; the clients
\* of the postgres repositories are the connections 1..Cardinality(Chains);
\* failed is the number of statement failures that have already happened
Start(chains, definitions, failed) ==
    /\ backend \in Backends
    /\ enabled = chains
    /\ defs = definitions
    /\ store = [c \in Chains |-> NoScope]
    /\ frames = [c \in Chains |-> <<>>]
    /\ last = NoEvent
    /\ repo = [c \in Chains |-> NewRepository(backend, c)]
    /\ conns = [i \in {repo[c] : c \in Chains} \ {NoConn} |-> FreshConnState]
    /\ committed = {}
    /\ writes = 0
    /\ faults = failed
    /\ template = TransactionTemplateNew
    /\ status = [h \in StatusIds |-> NoStatus]
    /\ mutex = MutexNew

Init == Start({1}, PlainDefinitions, 0)

\* the same program called with definitions that carry hints
InitHints == Start({1}, HintDefinitions, 0)

\* two tasks that call execute concurrently, their steps interleaved at the
\* awaits of execute and of the repository operations; no statement fails
InitChains == Start(Chains, PlainDefinitions, MaxFaults)

\* how deep the calls of a chain nest: the first chain to MaxDepth, every
\* further chain one level less
DepthLimit(c) ==
    IF defs = NestedDefinitions THEN MaxNesting
    ELSE IF c = 1 THEN MaxDepth ELSE MaxDepth - 1
\* how many savepoints the transaction of a chain may hold
SavepointLimit == IF defs = NestedDefinitions THEN MaxNestedSavepoints ELSE MaxSavepoints

CanCall(c, def) == c \in enabled /\ def \in defs /\ Len(frames[c]) < DepthLimit(c)

(***************************************************************************)
(* execute, up to the invocation of work.                                  *)
(***************************************************************************)
\* Supports / NotSupported without a transaction: return f(ctx).await
CallDirect(c, def) ==
    /\ CanCall(c, def)
    /\ LET st == ScopeOnEntry(c)
           call == NewCall(c, def, st, "direct")
       IN /\ Decision(backend, def.propagation, st.stack # <<>>) = "direct"
          /\ frames' = [frames EXCEPT ![c] = Append(@, call)]
          /\ store' = [store EXCEPT ![TaskLocal(c)] = st]
          /\ last' = Enter(call, def, <<>>, st)
    /\ UNCHANGED <<repo, backend, enabled, defs, conns, committed, writes, faults>>

\* Never inside a transaction: Err(backend(..)) without invoking work
CallReject(c, def) ==
    /\ CanCall(c, def)
    /\ LET st == ScopeOnEntry(c)
           call == NewCall(c, def, st, "reject")
       IN /\ Decision(backend, def.propagation, st.stack # <<>>) = "reject"
          /\ last' = Exit(call, def, 0, <<>>, st, NoResult,
                          BackendError("never", call.level))
          /\ store' = [store EXCEPT ![TaskLocal(c)] =
                          ScopeOnExit(call, ScopeOnError(st, NoConn))]
    /\ UNCHANGED <<repo, backend, enabled, defs, frames, conns, committed, writes, faults>>

\* no transaction yet: acquire a connection, apply the hints, begin, push
CallStart(c, def) ==
    /\ CanCall(c, def)
    /\ LET st == ScopeOnEntry(c)
           call == NewCall(c, def, st, "start")
           stmts == StartStmts(backend, def)
       IN /\ Decision(backend, def.propagation, st.stack # <<>>) = "start"
          /\ \E F \in FaultSets(Len(stmts)) :
               LET run == RunStmts([cs |-> FreshConnState, com |-> committed,
                                    backend |-> backend], stmts, F, 1, <<>>)
                   st2 == [st EXCEPT !.stack = StackPush(backend, st.stack, NewConn),
                                     !.depth = 0]
                   call2 == [call EXCEPT !.created_tx = TRUE, !.conn = NewConn]
               IN /\ faults' = faults + NumFailed(run.entries, F)
                  /\ committed' = run.db.com
                  /\ IF run.aborted
                     THEN /\ last' = Exit(call, def, 0, run.entries, st, NoResult,
                                          BackendError("statement", call.level))
                          /\ store' = [store EXCEPT ![TaskLocal(c)] =
                                          ScopeOnExit(call, ScopeOnError(st, NewConn))]
                          /\ frames' = frames
                          /\ conns' = conns
                     ELSE /\ last' = Enter(call2, def, run.entries, st2)
                          /\ store' = [store EXCEPT ![TaskLocal(c)] = st2]
                          /\ frames' = [frames EXCEPT ![c] = Append(@, call2)]
                          /\ conns' = (NewConn :> [run.db.cs EXCEPT !.owner = c]) @@ conns
    /\ UNCHANGED <<repo, backend, enabled, defs, writes>>

\* RequiresNew / Nested inside a transaction: SAVEPOINT sp<depth+1>
CallSavepoint(c, def) ==
    /\ CanCall(c, def)
    /\ LET st == ScopeOnEntry(c)
           stmts == SavepointStmts(backend, st.depth)
       IN /\ Decision(backend, def.propagation, st.stack # <<>>) = "savepoint"
          /\ Len(conns[Last(st.stack)].sps) < SavepointLimit
          /\ \E F \in FaultSets(Len(stmts)) :
               LET conn == Last(st.stack)
                   run == RunStmts([cs |-> conns[conn], com |-> committed,
                                    backend |-> backend], stmts, F, 1, <<>>)
                   st2 == [st EXCEPT !.depth = st.depth + 1]
                   call == [NewCall(c, def, st, "savepoint") EXCEPT
                               !.used_savepoint = TRUE,
                               !.conn = IF backend = "mysql" THEN NoConn ELSE conn]
               IN /\ faults' = faults + NumFailed(run.entries, F)
                  /\ conns' = [conns EXCEPT ![conn] = run.db.cs]
                  /\ frames' = [frames EXCEPT ![c] = Append(@, call)]
                  /\ store' = [store EXCEPT ![TaskLocal(c)] = st2]
                  /\ last' = Enter(call, def, run.entries, st2)
    /\ UNCHANGED <<repo, backend, enabled, defs, committed, writes>>

\* Required / Supports / NotSupported inside a transaction: nothing at this level
CallJoin(c, def) ==
    /\ CanCall(c, def)
    /\ LET st == ScopeOnEntry(c)
           call == [NewCall(c, def, st, "join") EXCEPT
                       !.conn = IF backend = "mysql" THEN NoConn ELSE Last(st.stack)]
       IN /\ Decision(backend, def.propagation, st.stack # <<>>) = "join"
          /\ frames' = [frames EXCEPT ![c] = Append(@, call)]
          /\ store' = [store EXCEPT ![TaskLocal(c)] = st]
          /\ last' = Enter(call, def, <<>>, st)
    /\ UNCHANGED <<repo, backend, enabled, defs, conns, committed, writes, faults>>
(***************************************************************************)
(* Work: the closure passed to execute.  It may write through a            *)
(* repository, call execute again, and finally return Ok or Err.           *)
(***************************************************************************)
Running(c) == c \in enabled /\ frames[c] # <<>>

\* Repository::insert / update / delete_by_id issued by the running work.
\* A write outside a transaction is committed at once (autocommit).
WorkWrite(c, bound) ==
    /\ Running(c)
    /\ writes < MaxRows
    /\ LET k == Len(frames[c])
           r == writes + 1
           conn == ResolveConn(backend, store[TaskLocal(c)], bound)
           inTx == conn # NoConn /\ conns[conn].inTx
           refused == conn # NoConn /\ conns[conn].readOnly # "no"
       IN /\ writes' = r
          /\ last' = Write(frames[c][k], r, ~refused, inTx,
                           store[TaskLocal(c)].stack # <<>> /\ conn = Last(store[TaskLocal(c)].stack))
                      @@ Resolution(c, store[TaskLocal(c)], bound, conn)
          /\ frames' = [frames EXCEPT ![c][k].rows = IF refused THEN @ ELSE @ \cup {r}]
          /\ conns' = IF inTx /\ ~refused
                      THEN [conns EXCEPT ![conn].pending = @ \cup {r}]
                      ELSE conns
          /\ committed' = IF ~inTx /\ ~refused THEN committed \cup {r} ELSE committed
    /\ UNCHANGED <<repo, backend, enabled, defs, store, faults>>

\* the same operations issued outside every execute call of the chain
PlainWrite(c, bound) ==
    /\ c \in Chains /\ frames[c] = <<>>
    /\ writes < MaxRows
    /\ LET st == store[TaskLocal(c)]
           r == writes + 1
           conn == ResolveConn(backend, st, bound)
           inTx == conn # NoConn /\ conns[conn].inTx
           refused == conn # NoConn /\ conns[conn].readOnly # "no"
       IN /\ writes' = r
          /\ last' = Write(NoCall, r, ~refused, inTx,
                           st.stack # <<>> /\ conn = Last(st.stack))
                      @@ Resolution(c, st, bound, conn)
          /\ conns' = IF inTx /\ ~refused
                      THEN [conns EXCEPT ![conn].pending = @ \cup {r}]
                      ELSE conns
          /\ committed' = IF ~inTx /\ ~refused THEN committed \cup {r} ELSE committed
    /\ UNCHANGED <<repo, backend, enabled, defs, store, frames, faults>>

\* Repository::find_by_id / find_by_field, inside work or outside execute: a
\* connection sees the committed rows and the rows pending in its own
\* transaction
Find(c, bound) ==
    /\ c \in Chains
    /\ LET st == store[TaskLocal(c)]
           conn == ResolveConn(backend, st, bound)
           inTx == conn # NoConn /\ conns[conn].inTx
           seen == committed \cup (IF inTx THEN conns[conn].pending ELSE {})
       IN last' = Read(IF frames[c] # <<>> THEN Last(frames[c]) ELSE NoCall, seen, inTx)
                  @@ Resolution(c, st, bound, conn)
    /\ UNCHANGED <<repo, backend, enabled, defs, store, frames, conns, committed,
                   writes, faults>>

\* the tokens chain c can pass: the ctx of each of its running calls and one
\* made by the caller
Tokens(c) ==
    {TransactionContext("caller", 0)}
    \cup {TransactionContext("execute", k) : k \in 1..Len(frames[c])}

\* Manager::repository(ctx) called by the running work, which goes on with
\* the repository it returns: let repo = mgr.repository(ctx, adapter).await?
\* The repository is a local of work, dropped when work returns.  Called
\* outside every execute call, the repository replaces the one the chain
\* made at the start.
Repository(c, ctx) ==
    /\ c \in enabled /\ ctx \in Tokens(c)
    /\ LET st == store[TaskLocal(c)]
           k == Len(frames[c])
           bound == ManagerRepository(backend, ctx, st, NewConn)
           opened == IF bound = NewConn
                     THEN (NewConn :> FreshConnState) @@ conns ELSE conns
       IN /\ IF frames[c] # <<>>
             THEN /\ Last(frames[c]).bound = repo[c]
                  /\ frames' = [frames EXCEPT ![c][k].bound = bound]
                  /\ repo' = repo
             ELSE /\ repo[c] = NewRepository(backend, c)
                  /\ frames' = frames
                  /\ repo' = [repo EXCEPT ![c] = bound]
          /\ conns' = Keep(opened, store, frames', repo')
          /\ last' = Vended(c, ctx, st, bound)
    /\ UNCHANGED <<backend, enabled, defs, store, committed, writes, faults>>

\* the running work calls Manager::repository with the ctx it was given
WorkRepository(c) ==
    /\ Running(c)
    /\ Repository(c, TransactionContext("execute", Len(frames[c])))

\* the repository a chain uses: the one of the running work, else its own
Bound(c) == IF frames[c] # <<>> THEN Last(frames[c]).bound ELSE repo[c]

(***************************************************************************)
(* execute, after work has returned result.                                *)
(***************************************************************************)
\* the connection the end statements run on: the local conn for libsql and
\* postgres, the one taken from MY_TX_CONN for mysql
EndConn(b, call, st) ==
    IF b = "mysql" THEN (IF st.stack # <<>> THEN Last(st.stack) ELSE NoConn)
    ELSE call.conn

\* created_tx: COMMIT or ROLLBACK, restore read-only mode, pop the stack
ReturnTx(c, result) ==
    /\ Running(c)
    /\ LET call == Last(frames[c])
           st == store[TaskLocal(c)]
           stmts == EndStmts(backend, call, result = OkResult, st.stack)
           conn == EndConn(backend, call, st)
       IN /\ call.created_tx
          /\ result \in {OkResult} \cup WorkErrors(call.level)
          /\ \E F \in FaultSets(Len(stmts)) :
               LET run == RunStmts([cs |-> IF conn = NoConn THEN FreshConnState
                                           ELSE conns[conn],
                                    com |-> committed, backend |-> backend],
                                   stmts, F, 1, <<>>)
                   st2 == [st EXCEPT !.stack = StackAfterEnd(backend, st.stack, run.aborted)]
               IN /\ faults' = faults + NumFailed(run.entries, F)
                  /\ committed' = run.db.com
                  /\ last' = Exit(call, NoDef, 1, run.entries, st2, result,
                                  Outcome(result, run.aborted, call.level))
                  /\ store' = [store EXCEPT ![TaskLocal(c)] = ScopeOnExit(call, st2)]
                  /\ frames' = [frames EXCEPT ![c] = Pop(@)]
                  /\ conns' = Keep(IF conn = NoConn THEN conns
                                   ELSE [conns EXCEPT ![conn] = run.db.cs],
                                   store', frames', repo)
    /\ UNCHANGED <<repo, backend, enabled, defs, writes>>

\* used_savepoint: RELEASE or ROLLBACK TO sp<depth>, decrement the depth
ReturnSavepoint(c, result) ==
    /\ Running(c)
    /\ LET call == Last(frames[c])
           st == store[TaskLocal(c)]
           conn == EndConn(backend, call, st)
           stmts == IF conn = NoConn THEN <<>>
                    ELSE SavepointEndStmts(backend, st.depth, result = OkResult)
       IN /\ ~call.created_tx /\ call.used_savepoint
          /\ result \in {OkResult} \cup WorkErrors(call.level)
          /\ \E F \in FaultSets(Len(stmts)) :
               LET run == RunStmts([cs |-> IF conn = NoConn THEN FreshConnState
                                           ELSE conns[conn],
                                    com |-> committed, backend |-> backend],
                                   stmts, F, 1, <<>>)
                   st2 == [st EXCEPT !.depth = IF conn # NoConn
                                               THEN DepthAfterSavepointEnd(st.depth)
                                               ELSE st.depth]
               IN /\ faults' = faults + NumFailed(run.entries, F)
                  /\ last' = Exit(call, NoDef, 1, run.entries, st2, result,
                                  Outcome(result, run.aborted, call.level))
                  /\ store' = [store EXCEPT ![TaskLocal(c)] = ScopeOnExit(call, st2)]
                  /\ frames' = [frames EXCEPT ![c] = Pop(@)]
                  /\ conns' = Keep(IF conn = NoConn THEN conns
                                   ELSE [conns EXCEPT ![conn] = run.db.cs],
                                   store', frames', repo)
    /\ UNCHANGED <<repo, backend, enabled, defs, committed, writes>>

\* neither: the result of work is the result of execute
ReturnPlain(c, result) ==
    /\ Running(c)
    /\ LET call == Last(frames[c])
           st == store[TaskLocal(c)]
       IN /\ ~call.created_tx /\ ~call.used_savepoint
          /\ result \in {OkResult} \cup WorkErrors(call.level)
          /\ last' = Exit(call, NoDef, 1, <<>>, st, result, result)
          /\ store' = [store EXCEPT ![TaskLocal(c)] = ScopeOnExit(call, st)]
          /\ frames' = [frames EXCEPT ![c] = Pop(@)]
          /\ conns' = Keep(conns, store', frames', repo)
    /\ UNCHANGED <<repo, backend, enabled, defs, committed, writes, faults>>

\* M::execute(def, f) up to the invocation of f
ManagerExecute(c, def) ==
    \/ CallDirect(c, def)
    \/ CallReject(c, def)
    \/ CallStart(c, def)
    \/ CallSavepoint(c, def)
    \/ CallJoin(c, def)

\* M::execute after f has returned result
ManagerReturn(c, result) ==
    \/ ReturnTx(c, result)
    \/ ReturnSavepoint(c, result)
    \/ ReturnPlain(c, result)

Results == {OkResult} \cup UNION {WorkErrors(k) : k \in 1..MaxDepth}

Next ==
    \/ \E c \in enabled, def \in defs : CallDirect(c, def) /\ UNCHANGED <<template, status, mutex>>
    \/ \E c \in enabled, def \in defs : CallReject(c, def) /\ UNCHANGED <<template, status, mutex>>
    \/ \E c \in enabled, def \in defs : CallStart(c, def) /\ UNCHANGED <<template, status, mutex>>
    \/ \E c \in enabled, def \in defs : CallSavepoint(c, def) /\ UNCHANGED <<template, status, mutex>>
    \/ \E c \in enabled, def \in defs : CallJoin(c, def) /\ UNCHANGED <<template, status, mutex>>
    \/ \E c \in enabled : WorkWrite(c, Bound(c)) /\ UNCHANGED <<template, status, mutex>>
    \/ \E c \in Chains : PlainWrite(c, Bound(c)) /\ UNCHANGED <<template, status, mutex>>
    \/ \E c \in Chains : Find(c, Bound(c)) /\ UNCHANGED <<template, status, mutex>>
    \/ \E c \in enabled : WorkRepository(c) /\ UNCHANGED <<template, status, mutex>>
    \/ \E c \in enabled, result \in Results : ReturnTx(c, result) /\ UNCHANGED <<template, status, mutex>>
    \/ \E c \in enabled, result \in Results : ReturnSavepoint(c, result) /\ UNCHANGED <<template, status, mutex>>
    \/ \E c \in enabled, result \in Results : ReturnPlain(c, result) /\ UNCHANGED <<template, status, mutex>>

Spec == Init /\ [][Next]_vars

SpecHints == InitHints /\ [][Next]_vars

SpecChains == InitChains /\ [][Next]_vars

\* the same program when Manager::repository is called with any token the
\* chain can come by, inside work and outside every execute call
NextTokens ==
    \/ \E c \in enabled, def \in defs : ManagerExecute(c, def) /\ UNCHANGED <<template, status, mutex>>
    \/ \E c \in enabled, result \in Results : ManagerReturn(c, result) /\ UNCHANGED <<template, status, mutex>>
    \/ \E c \in enabled : WorkWrite(c, Bound(c)) /\ UNCHANGED <<template, status, mutex>>
    \/ \E c \in Chains : PlainWrite(c, Bound(c)) /\ UNCHANGED <<template, status, mutex>>
    \/ \E c \in Chains : Find(c, Bound(c)) /\ UNCHANGED <<template, status, mutex>>
    \/ \E c \in enabled : \E ctx \in Tokens(c) : Repository(c, ctx) /\ UNCHANGED <<template, status, mutex>>

SpecTokens == Init /\ [][NextTokens]_vars

\* execute of the call at level k of chain c goes on after its work returned
ReturnAt(c, k, result) ==
    /\ Len(frames[c]) = k
    /\ ManagerReturn(c, result)
    /\ UNCHANGED <<template, status, mutex>>

\* calls and returns only
NextLive ==
    \/ \E c \in enabled, def \in defs : ManagerExecute(c, def) /\ UNCHANGED <<template, status, mutex>>
    \/ \E c \in enabled, k \in 1..MaxDepth, result \in Results : ReturnAt(c, k, result)

\* calls with every definition: each propagation with each isolation level,
\* read-only or not, with and without a timeout
InitDefinitions == Start({1}, TransactionDefinition, 0)

SpecDefinitions == InitDefinitions /\ [][NextLive]_vars

\* every work terminates: it makes finitely many nested calls and returns,
\* and every statement execute awaits completes (with success or failure)
SpecLive ==
    /\ Init /\ [][NextLive]_vars
    /\ \A c \in Chains, k \in 1..MaxDepth :
          SF_vars(\E result \in Results : ReturnAt(c, k, result))

(***************************************************************************)
(* TransactionTemplate<M>: a manager and the default definition.           *)
(***************************************************************************)
\* the definitions of the tests of the template, and a Never definition
TemplateDefinitions ==
    {DefaultDefinition,
     [propagation |-> "RequiresNew", isolation |-> "Serializable",
      read_only |-> TRUE, timeout |-> SampleTimeoutMs],
     [propagation |-> "Supports", isolation |-> "ReadCommitted",
      read_only |-> FALSE, timeout |-> SampleTimeoutMs],
     [propagation |-> "Never", isolation |-> "Default",
      read_only |-> FALSE, timeout |-> NoTimeout]}

\* a template over any of the four managers, used by one task with the
\* definitions of the tests and with every propagation
InitTemplate ==
    /\ backend \in Managers
    /\ enabled = {1}
    /\ defs = TemplateDefinitions \cup PlainDefinitions
    /\ store = [c \in Chains |-> NoScope]
    /\ frames = [c \in Chains |-> <<>>]
    /\ last = NoEvent
    /\ repo = [c \in Chains |-> NewRepository(backend, c)]
    /\ conns = [i \in {repo[c] : c \in Chains} \ {NoConn} |-> FreshConnState]
    /\ committed = {}
    /\ writes = 0
    /\ faults = 0
    /\ template = TransactionTemplateNew
    /\ status = [h \in StatusIds |-> NoStatus]
    /\ mutex = MutexNew

\* a template whose execute always passes TransactionDefinition::default()
ExecuteDefinitionIgnoresDefaults(t) == DefaultDefinition

\* the definition execute hands to the manager: &self.defaults
ExecuteDefinition(t) == t.defaults

\* with_defaults(mut self, def): takes the template by value, so no call
\* made through it is running
WithDefaults(def) ==
    /\ def \in defs
    /\ \A c \in Chains : frames[c] = <<>>
    /\ template' = [defaults |-> def, method |-> "with_defaults", def |-> def,
                    result |-> NoResult]
    /\ UNCHANGED <<backend, enabled, defs, store, frames, last, conns, committed,
                   writes, faults, repo, status, mutex>>

\* execute(&self, f): self.manager.execute(&self.defaults, f).await; the
\* template returns with the manager when the manager does not invoke f
TemplateExecute(c) ==
    /\ ManagerExecute(c, ExecuteDefinition(template))
    /\ template' = [template EXCEPT !.method = "execute", !.def = NoDef,
                                    !.result = last'.result]

\* execute_with(&self, def, f): self.manager.execute(def, f).await
TemplateExecuteWith(c, def) ==
    /\ ManagerExecute(c, def)
    /\ template' = [template EXCEPT !.method = "execute_with", !.def = def,
                                    !.result = last'.result]

\* the manager returns and the template returns what it returned
TemplateReturn(c, result) ==
    /\ ManagerReturn(c, result)
    /\ template' = [template EXCEPT !.result = last'.result]

NextTemplate ==
    \/ \E def \in defs : WithDefaults(def)
    \/ \E c \in enabled : TemplateExecute(c) /\ UNCHANGED <<status, mutex>>
    \/ \E c \in enabled, def \in defs : TemplateExecuteWith(c, def) /\ UNCHANGED <<status, mutex>>
    \/ \E c \in enabled, result \in Results : TemplateReturn(c, result) /\ UNCHANGED <<status, mutex>>

SpecTemplate == InitTemplate /\ [][NextTemplate]_vars
(***************************************************************************)
(* Properties.  execute consults the propagation only in its prelude and   *)
(* acts on created_tx and used_savepoint afterwards, so a property of a    *)
(* call with a given propagation is stated in two parts: the branch the    *)
(* call takes when it is made, and what a call of that branch does when    *)
(* its work has returned.                                                  *)
(***************************************************************************)
\* the last step was an execute call with a propagation in P, made while a
\* transaction was active in the chain (or not)
Called(P, active) ==
    /\ last.event \in {"enter", "exit"}
    /\ last.def.propagation \in P
    /\ (last.call.stackAtEntry # <<>>) = active

\* the last step was the return of a call of the given branch whose work has run
Returned(decision) ==
    last.event = "exit" /\ last.invoked = 1 /\ last.call.decision = decision

Issued(entries, sqls) == \E i \in 1..Len(entries) : entries[i].sql \in sqls
\* rows written inside a transaction that is still open
Pending == UNION {conns[i].pending : i \in DOMAIN conns}

\* C1: a Required call made while no transaction is active starts the
\* transaction, and when it returns: if work and execute returned Ok every
\* row written by work is committed (visible to a fresh connection); if work
\* returned Err execute returns Err and no row written by work is visible.
C1_RequiredAtomic ==
    /\ Called({"Required"}, FALSE) => last.call.decision = "start"
    /\ Returned("start") /\ last.workResult = OkResult /\ last.result = OkResult
          => last.call.rows \subseteq committed
    /\ Returned("start") /\ IsErr(last.workResult)
          => IsErr(last.result) /\ last.call.rows \cap committed = {}

\* C2: a RequiresNew or Nested call made while a transaction is active opens
\* a savepoint, and when its work has returned Err none of the rows the nested
\* work wrote is left, neither committed nor pending, while the rows written
\* by the calls still running around it remain and are committed when the
\* call that started the transaction commits.
C2_NestedFailureUndone ==
    /\ Called({"RequiresNew", "Nested"}, TRUE) /\ last.event = "enter"
          => last.call.decision = "savepoint"
    /\ Returned("savepoint") /\ IsErr(last.workResult)
          => /\ last.call.rows \cap (committed \cup Pending) = {}
             /\ \A i \in 1..Len(frames[last.call.chain]) :
                    frames[last.call.chain][i].rows \subseteq committed \cup Pending
    /\ Returned("start") /\ last.workResult = OkResult /\ last.result = OkResult
          /\ last.stmts # <<>> /\ last.stmts[1].ok
          => last.call.rows \subseteq committed

\* C3: a Never call made while a transaction is active returns a Backend
\* error and its work is not invoked, in every manager.
C3_NeverRejected ==
    Called({"Never"}, TRUE)
        => /\ last.event = "exit"
           /\ last.invoked = 0
           /\ last.result = BackendError("never", last.call.level)
           /\ last.stmts = <<>>

C3_Witness ==
    /\ Called({"Never"}, TRUE)
    /\ last.event = "exit" /\ last.invoked = 0
    /\ last.result.tag = "Backend"
    /\ last.call.level > 1

\* C4: a Supports or NotSupported call made while no transaction is active
\* runs work at once: no statement is issued before or after work, nothing is
\* pushed on the stack, the result of work is returned as it is, and the rows
\* work wrote are committed whatever work returned.
C4_DirectWithoutTransaction ==
    /\ Called({"Supports", "NotSupported"}, FALSE)
          => /\ last.event = "enter" /\ last.call.decision = "direct"
             /\ last.stmts = <<>> /\ last.stack = <<>>
    /\ Returned("direct")
          => /\ last.stmts = <<>>
             /\ last.result = last.workResult
             /\ last.call.rows \subseteq committed

\* C5: a Never call made while no transaction is active runs work without a
\* transaction: no connection is acquired, no statement is issued, the stack
\* is empty while work runs.
C5_NeverRunsDirect ==
    Called({"Never"}, FALSE)
        => /\ last.event = "enter" /\ last.call.decision = "direct"
           /\ last.stmts = <<>> /\ last.stack = <<>>

\* C6: a Required or Supports call made while a transaction is active joins
\* it: it issues no statement before or after work, and the connection stack
\* and the savepoint depth are, when work starts and when execute returns,
\* what they were when the call was made, whatever work returns.
C6_JoinIsNoOp ==
    /\ Called({"Required", "Supports"}, TRUE)
          => /\ last.event = "enter" /\ last.call.decision = "join"
             /\ last.stmts = <<>>
             /\ last.stack = last.call.stackAtEntry
             /\ last.depth = last.call.depthAtEntry
    /\ Returned("join")
          => /\ last.stmts = <<>>
             /\ last.stack = last.call.stackAtEntry
             /\ last.depth = last.call.depthAtEntry

C6_Witness ==
    /\ Returned("join") /\ IsErr(last.workResult)
    /\ last.call.rows # {}
    /\ last.stack # <<>>

\* C7: a RequiresNew or Nested call made while a transaction is active
\* increments the savepoint depth and issues the single statement
\* SAVEPOINT sp<new depth> before work is invoked; the stack is unchanged, so
\* no connection is acquired and no BEGIN is issued.
C7_SavepointOpened ==
    Called({"RequiresNew", "Nested"}, TRUE)
        => /\ last.event = "enter" /\ last.call.decision = "savepoint"
           /\ last.depth = last.call.depthAtEntry + 1
           /\ Len(last.stmts) = 1
           /\ last.stmts[1].sql = "SAVEPOINT sp" /\ last.stmts[1].n = last.depth
           /\ last.stack = last.call.stackAtEntry

C7_Witness ==
    /\ Called({"RequiresNew", "Nested"}, TRUE)
    /\ last.event = "enter" /\ last.depth = 1
    /\ last.stmts[1].ok /\ last.stmts[1].n = 1

\* C8: a RequiresNew or Nested call made while no transaction is active
\* starts a top-level transaction: it issues the BEGIN statement and no
\* SAVEPOINT, pushes its connection and sets the depth to 0 before work, or
\* returns a Backend error without invoking work; and a call that started
\* the transaction issues COMMIT first when work returned Ok and ROLLBACK
\* first when work returned Err.
C8_NewTransactionWhenNone ==
    /\ Called({"RequiresNew", "Nested"}, FALSE) /\ last.event = "enter"
          => /\ last.call.decision = "start"
             /\ Issued(last.stmts, BeginSqls)
             /\ ~Issued(last.stmts, SavepointSqls)
             /\ last.stack = <<last.call.conn>> /\ last.depth = 0
    /\ Called({"RequiresNew", "Nested"}, FALSE) /\ last.event = "exit"
          => last.invoked = 0 /\ last.result.tag = "Backend"
    /\ Returned("start")
          => /\ last.stmts # <<>>
             /\ last.stmts[1].sql =
                    (IF last.workResult = OkResult THEN "COMMIT" ELSE "ROLLBACK")
             /\ ~Issued(last.stmts, SavepointSqls)

C8_Witness ==
    /\ Called({"RequiresNew", "Nested"}, FALSE)
    /\ last.event = "enter" /\ last.stack # <<>>
    /\ last.call.level = 2

\* C9: a NotSupported call made while a transaction is active joins it: no
\* statement before or after work, stack and depth unchanged; and a write of
\* joined work goes to the connection on top of the stack, inside its
\* transaction, so that it is committed or rolled back with it.
C9_NotSupportedJoins ==
    /\ Called({"NotSupported"}, TRUE)
          => /\ last.event = "enter" /\ last.call.decision = "join"
             /\ last.stmts = <<>>
             /\ last.stack = last.call.stackAtEntry
             /\ last.depth = last.call.depthAtEntry
    /\ last.event = "write" /\ last.call.decision = "join"
          => last.onTop /\ last.inTx
    /\ Returned("join") => last.stmts = <<>>

\* C10: whenever work returns Err(e), execute returns e.
C10_ErrorUnmodified ==
    last.event = "exit" /\ last.invoked = 1 /\ IsErr(last.workResult)
        => last.result = last.workResult

\* C10, amended: whenever work returns Err(e), a call that started the
\* transaction issues ROLLBACK and a call that opened a savepoint issues
\* ROLLBACK TO SAVEPOINT, and execute returns e, except that the libsql and
\* postgres managers return the Backend error of a ROLLBACK that failed.
C10_ErrorUnlessRollbackFails ==
    last.event = "exit" /\ last.invoked = 1 /\ IsErr(last.workResult)
        => /\ last.call.created_tx
                => Len(last.stmts) = 1 /\ last.stmts[1].sql = "ROLLBACK"
           /\ last.call.used_savepoint
                => Len(last.stmts) = 1
                   /\ last.stmts[1].sql = "ROLLBACK TO SAVEPOINT sp"
           /\ last.result =
                 (IF last.call.created_tx /\ ~last.stmts[1].ok
                     /\ backend \in {"libsql", "postgres"}
                  THEN BackendError("statement", last.call.level)
                  ELSE last.workResult)

C10_Witness ==
    /\ Returned("start") /\ IsErr(last.workResult)
    /\ ~last.stmts[1].ok
    /\ last.result.tag = "Backend"

(***************************************************************************)
(* Failure handling, repositories, concurrent chains and the invariants    *)
(* of the binding store.                                                   *)
(***************************************************************************)
HintSqls ==
    IsolationSqls \cup
    {"PRAGMA query_only = ON", "PRAGMA busy_timeout", "SET TRANSACTION READ ONLY",
     "SET SESSION innodb_lock_wait_timeout", "SET LOCAL statement_timeout"}
Failed(entries, sqls) ==
    \E i \in 1..Len(entries) : entries[i].sql \in sqls /\ ~entries[i].ok
Count(entries, sqls) ==
    Cardinality({i \in 1..Len(entries) : entries[i].sql \in sqls})
\* the last step was a repository operation
IsOp == last.event \in {"read", "write"}
\* the running calls of chain c that started its transaction
Starters(c) == {i \in 1..Len(frames[c]) : frames[c][i].created_tx}

\* C11: in every manager a failed BEGIN (START TRANSACTION) keeps work from
\* being invoked, and a failed COMMIT or ROLLBACK makes execute return a
\* Backend error: execute never returns Ok when its COMMIT failed.
C11_ControlFailureFatal ==
    /\ last.event = "enter" /\ last.call.decision = "start"
          => ~Failed(last.stmts, BeginSqls)
    /\ Returned("start") /\ Failed(last.stmts, EndSqls)
          => last.result.tag = "Backend"
    /\ last.event = "exit" /\ last.call.decision = "start"
          /\ Failed(last.stmts, BeginSqls \cup EndSqls)
          => last.result # OkResult
\* C12: when a call starts the top-level transaction and a hint statement
\* (read-only mode, timeout, separate isolation statement) fails, the failure
\* is ignored: the call goes on to work unless the connection or the BEGIN
\* statement failed, the transaction is open when work starts if BEGIN
\* succeeded, and execute returns what work returned unless COMMIT or
\* ROLLBACK failed.
C12_HintFailureIgnored ==
    /\ last.event = "exit" /\ last.invoked = 0 /\ last.call.decision = "start"
          => /\ ~Last(last.stmts).ok
             /\ Last(last.stmts).sql \in BeginSqls \cup {"CONNECT"}
    /\ last.event = "enter" /\ last.call.decision = "start"
          => /\ last.invoked = 1
             /\ Issued(last.stmts, BeginSqls)
             /\ last.stack = <<last.call.conn>>
             /\ ~Failed(last.stmts, BeginSqls) => conns[last.call.conn].inTx
    /\ Returned("start")
          => \/ last.result = last.workResult
             \/ Failed(last.stmts, EndSqls) /\ last.result.tag = "Backend"

C12_Witness ==
    /\ last.event = "enter" /\ last.call.decision = "start"
    /\ Failed(last.stmts, HintSqls)
    /\ conns[last.call.conn].inTx

OpenRows ==
    UNION {{r \in 1..MaxRows :
              \E i \in Starters(c), j \in 1..Len(frames[c]) :
                  i <= j /\ r \in frames[c][j].rows} : c \in Chains}

\* C14: a repository made before execute and used inside the work of the
\* call that started the transaction reads the rows that work has inserted;
\* a repository made separately and used outside the transaction reads the
\* committed rows and none of the rows of a transaction still open; and once
\* execute has returned Ok the rows of its work are committed, so that the
\* outside repository reads them.
C14_ReadYourWrites ==
    /\ last.event = "read" /\ last.inside /\ last.call.created_tx
          /\ last.bound = repo[last.chain]
          => last.call.rows \subseteq last.seen
    /\ last.event = "read" /\ ~last.inside
          => /\ last.seen \cap OpenRows = {}
             /\ committed \subseteq last.seen
    /\ Returned("start") /\ last.result = OkResult
          => last.call.rows \subseteq committed

\* the number of running calls of chain c that opened a savepoint
Savepoints(c) == Cardinality({i \in 1..Len(frames[c]) : frames[c][i].used_savepoint})

\* C15: with several chains calling execute concurrently, the store of a
\* chain is determined by the chain's own running calls: it exists exactly
\* while the chain has a running call, its stack holds exactly the
\* connection of the chain's own call that started a transaction, and its
\* depth is the number of the chain's own running savepoint calls, whatever
\* the other chains do.  The connections on a chain's stack were acquired
\* by that chain and stay in their transaction until that chain ends it, a
\* repository operation never runs on a connection another chain acquired,
\* and the statements of a call run on a connection of its own chain.
C15_ChainLocalStores ==
    /\ \A c \in Chains :
          /\ store[c].init = (frames[c] # <<>>)
          /\ store[c].stack = [i \in 1..Cardinality(Starters(c)) |->
                                  frames[c][CHOOSE j \in Starters(c) : TRUE].conn]
          /\ store[c].depth = Savepoints(c)
          /\ \A i \in Range(store[c].stack) : conns[i].owner = c /\ conns[i].inTx
    /\ IsOp /\ last.conn # NoConn => conns[last.conn].owner \in {0, last.chain}
    /\ last.event = "enter" /\ last.call.conn # NoConn
          => conns[last.call.conn].owner = last.call.chain

C15_Witness ==
    /\ \A c \in Chains : Starters(c) # {}
    /\ store[1].stack # store[2].stack
    /\ IsOp /\ last.chain = 2 /\ last.conn = Last(store[2].stack)
    /\ store[1].depth # store[2].depth

\* C16: in every state the stack of a chain is non-empty exactly when a
\* transaction is open for the chain: a connection on the stack is inside the
\* transaction that a still running call of the chain began, a running call
\* that began a transaction has its connection on the stack, and when a call
\* that started the transaction has returned, whatever its outcome, the
\* stack the chain goes on with is empty.
C16_StackIffTransaction ==
    /\ \A c \in Chains :
          /\ store[c].stack # <<>>
                => /\ Starters(c) # {}
                   /\ conns[Last(store[c].stack)].inTx
          /\ Starters(c) # {} => store[c].stack # <<>>
    /\ last.event = "exit" /\ last.call.decision = "start"
          => store[last.call.chain].stack = <<>>

\* C17: the savepoint depth is never negative; a call leaves it higher than
\* it found it only when it opens a savepoint inside an active transaction,
\* and then by one, for the time its work runs; and when a nested call
\* returns, whatever its work returned, the depth is what it was just before
\* the call.
C17_DepthRestored ==
    /\ \A c \in Chains : store[c].depth >= 0
    /\ last.event \in {"enter", "exit"} /\ last.depth > last.call.depthAtEntry
          => /\ last.event = "enter" /\ last.call.decision = "savepoint"
             /\ last.call.stackAtEntry # <<>>
             /\ last.depth = last.call.depthAtEntry + 1
    /\ last.event = "enter" /\ last.call.decision \in {"join", "savepoint"}
          => store[last.call.chain].depth = Savepoints(last.call.chain)
    /\ last.event = "exit" /\ last.call.level > 1
          => /\ last.depth = last.call.depthAtEntry
             /\ store[last.call.chain].depth = last.call.depthAtEntry

C17_Witness ==
    /\ Returned("savepoint") /\ IsErr(last.workResult)
    /\ last.call.level > 1
    /\ last.call.depthAtEntry = 0 /\ store[last.call.chain].depth = 0
    /\ ~last.stmts[1].ok

\* C18: a chain has at most one physical transaction at any time: its
\* connection stack never holds more than one connection and at most one of
\* its connections has a transaction open; an execute call made while a
\* transaction is active, whatever its propagation, acquires no connection,
\* issues no BEGIN and leaves the stack as it found it.
C18_OneTransaction ==
    /\ \A c \in Chains :
          /\ Len(store[c].stack) <= 1
          /\ Cardinality({i \in DOMAIN conns : conns[i].owner = c /\ conns[i].inTx}) <= 1
    /\ Called(Propagation, TRUE)
          => /\ ~Issued(last.stmts, BeginSqls \cup {"CONNECT"})
             /\ last.call.decision \notin {"start", "direct"}
             /\ last.call.created_tx = FALSE
             /\ last.stack = last.call.stackAtEntry
             /\ store[last.call.chain].stack = last.call.stackAtEntry

C18_Witness ==
    /\ Called({"RequiresNew"}, TRUE) /\ last.event = "enter"
    /\ last.call.decision = "savepoint"
    /\ Len(store[last.call.chain].stack) = 1
    /\ conns[Last(last.stack)].inTx
    /\ Issued(last.stmts, {"SAVEPOINT sp"})

CompensationSqls == {"ROLLBACK", "ROLLBACK TO SAVEPOINT sp"}
CompletionSqls == {"COMMIT", "RELEASE SAVEPOINT sp"}

\* C19: a call that started the transaction or opened a savepoint issues no
\* compensating statement before its work has returned, and when its work
\* returns Err it issues exactly one: ROLLBACK when it started the
\* transaction, ROLLBACK TO SAVEPOINT spN with the N of the savepoint it
\* opened when it opened a savepoint; never both, never twice, and neither
\* COMMIT nor RELEASE.
C19_OneCompensation ==
    /\ last.event = "enter"
          => /\ ~Issued(last.stmts, CompensationSqls \cup CompletionSqls)
             /\ last.call.decision = "savepoint"
                   => \E i \in 1..Len(last.stmts) :
                         /\ last.stmts[i].sql = "SAVEPOINT sp"
                         /\ last.stmts[i].n = last.call.depthAtEntry + 1
    /\ last.event = "exit" /\ last.invoked = 1 /\ IsErr(last.workResult)
       /\ last.call.decision \in {"start", "savepoint"}
          => /\ Count(last.stmts, CompensationSqls) = 1
             /\ ~Issued(last.stmts, CompletionSqls)
             /\ last.call.decision = "start"
                   => /\ last.call.created_tx
                      /\ Issued(last.stmts, {"ROLLBACK"})
             /\ last.call.decision = "savepoint"
                   => /\ last.call.used_savepoint
                      /\ \E i \in 1..Len(last.stmts) :
                            /\ last.stmts[i].sql = "ROLLBACK TO SAVEPOINT sp"
                            /\ last.stmts[i].n = last.call.depthAtEntry + 1
    /\ last.event = "exit" /\ last.call.decision \in {"join", "direct", "reject"}
          => ~Issued(last.stmts, CompensationSqls \cup CompletionSqls)

C19_Witness ==
    /\ Returned("savepoint") /\ IsErr(last.workResult)
    /\ last.stmts = <<[sql |-> "ROLLBACK TO SAVEPOINT sp", n |-> 1, ok |-> TRUE]>>
    /\ last.result = last.workResult

\* the abstract control action of a statement; hints and connection
\* acquisition are not control actions
ControlSqls == BeginSqls \cup SavepointSqls \cup EndSqls
ControlAction(s) ==
    CASE s.sql \in BeginSqls -> <<"begin", 0>>
      [] s.sql = "SAVEPOINT sp" -> <<"savepoint", s.n>>
      [] s.sql = "RELEASE SAVEPOINT sp" -> <<"release", s.n>>
      [] s.sql = "ROLLBACK TO SAVEPOINT sp" -> <<"rollback-to", s.n>>
      [] s.sql = "COMMIT" -> <<"commit", 0>>
      [] s.sql = "ROLLBACK" -> <<"rollback", 0>>
IsControl(s) == s.sql \in ControlSqls
ControlActions(stmts) ==
    LET ctl == SelectSeq(stmts, IsControl)
    IN [i \in 1..Len(ctl) |-> ControlAction(ctl[i])]

\* the statements manager b issues before the work of a call of the given
\* branch, and after it
PreludeOf(b, decision, def, depth) ==
    CASE decision = "start" -> StartStmts(b, def)
      [] decision = "savepoint" -> SavepointStmts(b, depth)
      [] OTHER -> <<>>
EpilogueOf(b, call, ok) ==
    CASE call.decision = "start"
           -> EndStmts(b, call, ok, StackPush(b, call.stackAtEntry, call.conn))
      [] call.decision = "savepoint"
           -> SavepointEndStmts(b, call.depthAtEntry + 1, ok)
      [] OTHER -> <<>>

\* C20: as long as no connection acquisition and no statement has failed,
\* what the manager in use does at every call and every return is what each
\* of the three managers does from the same abstract state (transaction
\* active or not, savepoint depth): the same branch, the same control
\* actions in the same order, work invoked the same number of times, the
\* same stack height and depth left behind, and the same result, none of
\* which depends on the manager.
C20_SameStateMachine ==
    faults = 0 /\ last.event \in {"enter", "exit"}
        => LET call == last.call
               active == call.stackAtEntry # <<>>
           IN /\ \A i \in 1..Len(last.stmts) : last.stmts[i].ok
              /\ last.def # NoDef
                    => \A b \in Backends :
                          /\ Decision(b, last.def.propagation, active) = call.decision
                          /\ ControlActions(PreludeOf(b, call.decision, last.def,
                                                      call.depthAtEntry))
                                = ControlActions(last.stmts)
              /\ last.event = "enter"
                    => /\ last.invoked = 1
                       /\ call.decision \in {"direct", "start", "savepoint", "join"}
                       /\ Len(last.stack) = (IF call.decision = "direct" THEN 0 ELSE 1)
                       /\ last.depth = (CASE call.decision = "savepoint"
                                               -> call.depthAtEntry + 1
                                          [] call.decision = "start" -> 0
                                          [] OTHER -> call.depthAtEntry)
              /\ last.event = "exit"
                    => /\ last.invoked = (IF call.decision = "reject" THEN 0 ELSE 1)
                       /\ last.result = (IF call.decision = "reject"
                                         THEN BackendError("never", call.level)
                                         ELSE last.workResult)
                       /\ Len(last.stack) = Len(call.stackAtEntry)
                       /\ last.depth = call.depthAtEntry
              /\ last.event = "exit" /\ last.invoked = 1
                    => \A b \in Backends :
                          ControlActions(EpilogueOf(b, call, last.workResult = OkResult))
                             = ControlActions(last.stmts)

C20_Witness ==
    /\ faults = 0 /\ Returned("savepoint") /\ last.workResult = OkResult
    /\ ControlActions(last.stmts) = << <<"release", 1>> >>
    /\ Len(last.stack) = 1 /\ last.depth = 0

\* C21: execute returns without having invoked work only when the call was
\* Never inside an active transaction, or when its connection could not be
\* acquired or its BEGIN failed; in every other case work is invoked, once,
\* and only after the BEGIN or SAVEPOINT of the call has been issued: a call
\* that starts a transaction has issued BEGIN, and one that opens a
\* savepoint SAVEPOINT, when its work is entered, neither is issued after
\* work has returned, and a joining or direct call issues nothing.
C21_WorkOnce ==
    /\ last.event \in {"enter", "exit"} => last.invoked \in {0, 1}
    /\ last.event = "exit" /\ last.invoked = 0
          => \/ /\ last.call.decision = "reject"
                /\ last.def.propagation = "Never"
                /\ last.call.stackAtEntry # <<>>
                /\ last.stmts = <<>>
             \/ /\ last.call.decision = "start"
                /\ Failed(last.stmts, BeginSqls \cup {"CONNECT"})
                /\ backend # "mysql" \/ Failed(last.stmts, {"CONNECT"})
    /\ last.event = "enter"
          => /\ last.invoked = 1
             /\ last.call.decision = "start"
                   => Count(last.stmts, BeginSqls) = 1 /\ last.call.created_tx
             /\ last.call.decision = "savepoint"
                   => Count(last.stmts, {"SAVEPOINT sp"}) = 1 /\ last.call.used_savepoint
             /\ last.call.decision \in {"join", "direct"} => last.stmts = <<>>
             /\ \A i \in 1..Len(frames[last.call.chain]) - 1 :
                   frames[last.call.chain][i].level = i
    /\ last.event = "exit" /\ last.invoked = 1
          => /\ ~Issued(last.stmts, BeginSqls \cup {"SAVEPOINT sp", "CONNECT"})
             /\ Len(frames[last.call.chain]) = last.call.level - 1
    /\ IsOp /\ last.inside
          => /\ last.call.decision = "start" => last.call.created_tx
             /\ last.call.decision = "savepoint" => last.call.used_savepoint
             /\ last.call.decision # "reject"

C21_Witness ==
    /\ last.event = "enter" /\ last.def.propagation = "Never"
    /\ last.call.decision = "start" /\ last.call.level > 1
    /\ last.invoked = 1 /\ ~Failed(last.stmts, BeginSqls)

\* the last step was a call made through the template by the given method
TemplateCalled(method) ==
    /\ template.method = method
    /\ last.event \in {"enter", "exit"} /\ last.def # NoDef

\* C22: TransactionTemplate passes the definition through unchanged and
\* returns the work's result unchanged: whenever a call made through the
\* template returns after its work has run, what the template returns is
\* what the work returned.
C22_TemplateReturnsWorkResult ==
    template.method \in {"execute", "execute_with"}
    /\ last.event = "exit" /\ last.invoked = 1
        => template.result = last.workResult

\* C22, amended: a new template holds TransactionDefinition::default()
\* (Required, Default isolation, not read-only, no timeout); with_defaults
\* replaces all four fields and nothing else ever changes the defaults;
\* execute calls the manager with the defaults and execute_with with exactly
\* the definition given; and the template returns what the manager returns,
\* which is the result of work unless the manager's COMMIT or ROLLBACK failed.
C22_TemplateDelegates ==
    /\ [](/\ template.method = "new"
               => /\ template.defaults = DefaultDefinition
                  /\ template.defaults.propagation = "Required"
                  /\ template.defaults.isolation = "Default"
                  /\ ~template.defaults.read_only
                  /\ template.defaults.timeout = NoTimeout
          /\ template.method = "with_defaults" => template.defaults = template.def
          /\ TemplateCalled("execute") => last.def = template.defaults
          /\ TemplateCalled("execute_with") => last.def = template.def
          /\ template.method \in {"execute", "execute_with"} /\ last.event = "exit"
               => /\ template.result = last.result
                  /\ last.invoked = 1 /\ ~Failed(last.stmts, EndSqls)
                        => template.result = last.workResult)
    /\ [][template'.defaults # template.defaults
             => /\ template'.method = "with_defaults"
                /\ template'.defaults = template'.def]_vars

C22_Witness ==
    /\ TemplateCalled("execute") /\ last.event = "enter"
    /\ template.defaults # DefaultDefinition
    /\ last.def.propagation = "RequiresNew" /\ last.def.read_only
    /\ last.def.isolation = "Serializable" /\ last.def.timeout = SampleTimeoutMs
    /\ last.call.level > 1

\* C23: DefaultTransactionManager runs the closure of every call, whatever
\* the definition (Never included) and whether the call is nested or not:
\* it invokes the closure once, issues no statement, starts no transaction,
\* acquires no connection, keeps no state, and returns what the closure
\* returned, Ok or Err.
C23_DefaultRunsClosure ==
    backend = "default"
        => /\ \A c \in Chains : store[c] = NoScope
           /\ DOMAIN conns = {} /\ committed = {} /\ faults = 0
           /\ last.event \in {"enter", "exit"}
                 => /\ last.call.decision = "direct"
                    /\ last.invoked = 1
                    /\ last.stmts = <<>>
                    /\ last.stack = <<>> /\ last.depth = 0
                    /\ last.call.stackAtEntry = <<>>
                    /\ ~last.call.created_tx /\ ~last.call.used_savepoint
           /\ last.event = "enter" => last.def \in defs
           /\ last.event = "exit"
                 => /\ last.result = last.workResult
                    /\ last.result \in {OkResult} \cup WorkErrors(last.call.level)
                    /\ template.method \in {"execute", "execute_with"}
                          => template.result = last.workResult

C23_Witness ==
    /\ backend = "default" /\ last.event = "exit"
    /\ last.call.level = 2 /\ IsErr(last.result)
    /\ Len(frames[1]) = 1 /\ frames[1][1].decision = "direct"
    /\ template.method = "execute_with" /\ template.def.propagation = "Never"

\* the top of the stack of chain c, NoConn when there is none
Top(c) ==
    IF store[TaskLocal(c)].init /\ store[TaskLocal(c)].stack # <<>>
    THEN Last(store[TaskLocal(c)].stack) ELSE NoConn

\* C24: the connection of a repository depends on the chain's store only,
\* never on the token: whatever token Manager::repository is called with
\* (the ctx of any running call of the chain, or one the caller made, inside
\* work or outside every execute call), the repository is bound to the top
\* of the chain's stack (libsql, postgres; mysql binds nothing), every other
\* token would have given the same, and with an empty stack it is bound to
\* no connection of a transaction: to none, or for postgres to a fresh
\* client of its own; and every repository operation resolves its
\* connection from the store and that binding.
C24_TokenIgnored ==
    /\ last.event = "repository"
          => /\ last.stack = store[TaskLocal(last.chain)].stack
             /\ \A ctx \in Tokens(last.chain) \cup {last.ctx} :
                   ManagerRepository(backend, ctx, store[TaskLocal(last.chain)],
                                     last.bound) = last.bound
             /\ Top(last.chain) # NoConn
                   => last.bound = (IF backend = "mysql" THEN NoConn
                                    ELSE Top(last.chain))
             /\ Top(last.chain) = NoConn
                   => \/ last.bound = NoConn
                      \/ /\ backend = "postgres"
                         /\ conns[last.bound].owner = 0 /\ ~conns[last.bound].inTx
                         /\ \A c \in Chains : last.bound \notin Range(store[c].stack)
             /\ ~last.inside => Top(last.chain) = NoConn
    /\ IsOp => /\ last.conn = ResolveConn(backend, store[TaskLocal(last.chain)], last.bound)
               /\ Top(last.chain) = NoConn /\ last.conn # NoConn
                     => conns[last.conn].owner = 0

C24_Witness ==
    /\ last.event = "repository" /\ last.inside
    /\ last.ctx = TransactionContext("caller", 0)
    /\ last.bound # NoConn /\ last.bound = Top(last.chain)
    /\ conns[last.bound].inTx /\ Len(frames[last.chain]) = 2

\* the identities connections can have
ConnIds == 1..(Cardinality(Chains) + MaxDepth)

\* an execute call has issued BEGIN on connection i and entered its work
Begun(i) ==
    /\ last.event = "enter" /\ last.call.decision = "start"
    /\ last.call.conn = i /\ Issued(last.stmts, BeginSqls)

\* the call that started the transaction on connection i has returned,
\* having issued COMMIT (work returned Ok) or ROLLBACK (work returned Err)
\* on it, and the connection is no longer on the stack
Ended(i) ==
    /\ Returned("start") /\ last.call.conn = i
    /\ Count(last.stmts, EndSqls) = 1
    /\ Issued(last.stmts, {"COMMIT"}) = (last.workResult = OkResult)
    /\ Issued(last.stmts, {"ROLLBACK"}) = IsErr(last.workResult)
    /\ i \notin Range(store[TaskLocal(last.call.chain)].stack)

\* C25: when every work terminates, every transaction that is started is
\* ended: the call that issued BEGIN on a connection eventually issues
\* COMMIT (work Ok) or ROLLBACK (work Err) on it, the connection is popped
\* from the stack, and execute returns.
C25_StartedIsEnded == \A i \in ConnIds : Begun(i) ~> Ended(i)

\* the last step was a repository operation of a work that runs inside a
\* transaction: the work of a call that started, joined or nested in one
TransactionalOp ==
    IsOp /\ last.inside /\ last.call.decision \in {"start", "join", "savepoint"}

\* C26: the statements on the connection of a transaction occur in program
\* order.  A call that starts a transaction issues BEGIN on a connection on
\* which no application statement has been issued; every statement of a
\* transactional work is issued on the connection of a call of its chain
\* that has issued BEGIN and has not yet issued COMMIT or ROLLBACK (it is
\* still running), and while the calls that opened the savepoints around it
\* have issued SAVEPOINT and not yet RELEASE or ROLLBACK TO; and COMMIT or
\* ROLLBACK is issued when the work has returned.
C26_ProgramOrder ==
    /\ last.event = "enter" /\ last.call.decision = "start"
          => /\ Issued(last.stmts, BeginSqls)
             /\ conns[last.call.conn].pending = {}
             /\ last.call.rows = {}
    /\ TransactionalOp
          => /\ last.conn # NoConn
             /\ \E i \in Starters(last.chain) : frames[last.chain][i].conn = last.conn
             /\ store[TaskLocal(last.chain)].depth = Savepoints(last.chain)
    /\ last.event = "exit" /\ last.call.decision \in {"start", "savepoint"}
          => /\ Len(frames[last.call.chain]) = last.call.level - 1
             /\ last.invoked = 1 => Issued(last.stmts, EndSqls \cup SavepointSqls)

\* the position of the first statement of sqls among entries, 0 when none
Index(entries, sqls) ==
    IF Issued(entries, sqls)
    THEN CHOOSE i \in 1..Len(entries) :
            /\ entries[i].sql \in sqls
            /\ \A j \in 1..(i - 1) : entries[j].sql \notin sqls
    ELSE 0

\* the last step was the prelude of a call that starts a transaction
Starting ==
    /\ last.event \in {"enter", "exit"} /\ last.def # NoDef
    /\ last.call.decision = "start"

\* C27: when the MySQL manager starts a transaction with an isolation level
\* other than Default, it issues one SET TRANSACTION ISOLATION LEVEL
\* statement, and issues it before START TRANSACTION; with Default it
\* issues none.
C27_IsolationPrecedesStart ==
    backend = "mysql" /\ Starting /\ Issued(last.stmts, {"START TRANSACTION"})
        => /\ last.def.isolation # "Default"
                 => /\ Count(last.stmts, IsolationSqls) = 1
                    /\ Index(last.stmts, IsolationSqls)
                          < Index(last.stmts, {"START TRANSACTION"})
           /\ last.def.isolation = "Default" => ~Issued(last.stmts, IsolationSqls)

\* the isolation statement of a level
IsolationSqlOf(isolation) ==
    CASE isolation = "ReadCommitted" -> "SET TRANSACTION ISOLATION LEVEL READ COMMITTED"
      [] isolation = "RepeatableRead" -> "SET TRANSACTION ISOLATION LEVEL REPEATABLE READ"
      [] isolation = "Serializable" -> "SET TRANSACTION ISOLATION LEVEL SERIALIZABLE"
      [] OTHER -> "none"

\* A precedes B among entries whenever both were issued
Precedes(entries, A, B) ==
    Issued(entries, A) /\ Issued(entries, B) => Index(entries, A) < Index(entries, B)

\* C28: when the Postgres manager starts a transaction, BEGIN is the first
\* statement on the connection and is followed, before work is invoked and
\* in this order, by the isolation statement of the level (none for
\* Default, exactly one for each other level), SET TRANSACTION READ ONLY if
\* and only if read_only, and SET LOCAL statement_timeout with the timeout
\* in milliseconds if and only if a timeout is given; nothing else is
\* issued, and a joined or savepoint-level call issues none of them.
C28_PgHintsAfterBegin ==
    /\ backend = "postgres" /\ Starting /\ last.event = "enter"
          => /\ last.stmts[1].sql = "CONNECT" /\ last.stmts[2].sql = "BEGIN"
             /\ Count(last.stmts, {"BEGIN"}) = 1
             /\ Count(last.stmts, IsolationSqls)
                   = (IF last.def.isolation = "Default" THEN 0 ELSE 1)
             /\ last.def.isolation # "Default"
                   => Issued(last.stmts, {IsolationSqlOf(last.def.isolation)})
             /\ Count(last.stmts, {"SET TRANSACTION READ ONLY"})
                   = (IF last.def.read_only THEN 1 ELSE 0)
             /\ Count(last.stmts, {"SET LOCAL statement_timeout"})
                   = (IF last.def.timeout = NoTimeout THEN 0 ELSE 1)
             /\ \A i \in 1..Len(last.stmts) :
                   last.stmts[i].sql = "SET LOCAL statement_timeout"
                      => last.stmts[i].n = last.def.timeout
             /\ Len(last.stmts) = 2 + Count(last.stmts, HintSqls)
             /\ Precedes(last.stmts, {"BEGIN"}, HintSqls)
             /\ Precedes(last.stmts, IsolationSqls, {"SET TRANSACTION READ ONLY"})
             /\ Precedes(last.stmts, IsolationSqls, {"SET LOCAL statement_timeout"})
             /\ Precedes(last.stmts, {"SET TRANSACTION READ ONLY"},
                         {"SET LOCAL statement_timeout"})
    /\ backend = "postgres" /\ last.event \in {"enter", "exit"}
       /\ last.call.decision \in {"join", "savepoint", "direct", "reject"}
          => ~Issued(last.stmts, HintSqls \cup BeginSqls)
    /\ backend = "postgres" /\ last.event = "exit" /\ last.invoked = 1
          => ~Issued(last.stmts, HintSqls \cup BeginSqls)

C28_Witness ==
    /\ backend = "postgres" /\ Starting /\ last.event = "enter"
    /\ last.def.isolation = "RepeatableRead" /\ last.def.read_only
    /\ last.def.timeout = SampleTimeoutMs
    /\ Len(last.stmts) = 5 /\ \A i \in 1..5 : last.stmts[i].ok

\* C29: the libsql manager begins a transaction with exactly one BEGIN
\* statement, chosen by the isolation level: BEGIN DEFERRED for Default and
\* ReadCommitted, BEGIN IMMEDIATE for RepeatableRead, BEGIN EXCLUSIVE for
\* Serializable (every level has one); a call made while a transaction is
\* active issues the same statements whatever its isolation level: none,
\* or the SAVEPOINT of its depth.
C29_BeginByIsolation ==
    /\ backend = "libsql" /\ Starting /\ Issued(last.stmts, BeginSqls)
          => /\ Count(last.stmts, BeginSqls) = 1
             /\ last.def.isolation \in {"Default", "ReadCommitted"}
                   => Issued(last.stmts, {"BEGIN DEFERRED"})
             /\ last.def.isolation = "RepeatableRead"
                   => Issued(last.stmts, {"BEGIN IMMEDIATE"})
             /\ last.def.isolation = "Serializable"
                   => Issued(last.stmts, {"BEGIN EXCLUSIVE"})
             /\ ~Issued(last.stmts, IsolationSqls \cup {"BEGIN", "START TRANSACTION"})
    /\ backend = "libsql" /\ Starting
          => \/ Issued(last.stmts, BeginSqls)
             \/ last.event = "exit" /\ Failed(last.stmts, {"CONNECT"})
    /\ backend = "libsql" /\ Called(Propagation, TRUE) /\ last.def # NoDef
          => /\ last.call.decision \in {"join", "reject"} => last.stmts = <<>>
             /\ last.call.decision = "savepoint"
                   => /\ Len(last.stmts) = 1
                      /\ last.stmts[1].sql = "SAVEPOINT sp"
                      /\ last.stmts[1].n = last.call.depthAtEntry + 1
             /\ last.call.decision \in {"join", "reject", "savepoint"}

C29_Witness ==
    /\ backend = "libsql" /\ Starting /\ last.event = "enter"
    /\ last.def.isolation = "ReadCommitted"
    /\ Issued(last.stmts, {"BEGIN DEFERRED"}) /\ ~Failed(last.stmts, BeginSqls)

QueryOnlySqls == {"PRAGMA query_only = ON", "PRAGMA query_only = OFF"}

\* C30: a read_only call of the libsql manager that starts a transaction
\* issues PRAGMA query_only = ON once, before BEGIN, and whenever it returns
\* after its work has run it has issued PRAGMA query_only = OFF once, after
\* COMMIT or ROLLBACK; a call with read_only false, and a call that joins,
\* opens a savepoint, runs directly or is rejected, issues neither.
C30_ReadOnlyRestored ==
    backend = "libsql" /\ last.event \in {"enter", "exit"}
        => /\ Starting /\ last.def.read_only /\ Issued(last.stmts, BeginSqls)
                 => /\ Count(last.stmts, {"PRAGMA query_only = ON"}) = 1
                    /\ Precedes(last.stmts, {"PRAGMA query_only = ON"}, BeginSqls)
                    /\ ~Issued(last.stmts, {"PRAGMA query_only = OFF"})
           /\ Returned("start") /\ last.call.read_only
                 => /\ Count(last.stmts, {"PRAGMA query_only = OFF"}) = 1
                    /\ Precedes(last.stmts, EndSqls, {"PRAGMA query_only = OFF"})
                    /\ ~Issued(last.stmts, {"PRAGMA query_only = ON"})
           /\ ~last.call.read_only \/ last.call.decision # "start"
                 => ~Issued(last.stmts, QueryOnlySqls)

(***************************************************************************)
(* Cancellation: the future of an execute call is dropped at an await of   *)
(* its work.  execute has no Drop guard: nothing after the await runs.     *)
(***************************************************************************)
\* a guard that rolled the transaction back when the future is dropped
StmtsOnDropRollsBack(call) ==
    IF call.created_tx THEN <<Stmt("ROLLBACK", 0, TRUE)>> ELSE <<>>

\* the statements execute issues when its future is dropped while work is
\* awaited: none, the code after f(ctx).await is never reached
StmtsOnDrop(call) == <<>>

\* the future of the call at level k of chain c was dropped, and with it the
\* calls nested in it
Dropped(c, k, calls, entries, st) ==
    [event |-> "cancel", chain |-> c, level |-> k, calls |-> calls,
     stmts |-> entries, stack |-> st.stack, depth |-> st.depth]

\* the caller drops the future of the call at level k (select!, timeout,
\* abort of the task).  The locals of the dropped calls go; the task-local
\* scope goes with the root call, and stays as it is otherwise: a dropped
\* savepoint call leaves SP_DEPTH incremented, so the model stops dropping
\* calls once the depth has passed MaxDepth.
Cancel(c, k) ==
    /\ Running(c) /\ k \in 1..Len(frames[c])
    /\ store[TaskLocal(c)].depth <= MaxDepth
    /\ LET calls == SubSeq(frames[c], k, Len(frames[c]))
           st == store[TaskLocal(c)]
           st2 == ScopeOnExit(frames[c][k], st)
           entries == StmtsOnDrop(frames[c][k])
       IN /\ frames' = [frames EXCEPT ![c] = SubSeq(@, 1, k - 1)]
          /\ store' = [store EXCEPT ![TaskLocal(c)] = st2]
          /\ conns' = Keep(conns, store', frames', repo)
          /\ last' = Dropped(c, k, calls, entries, st2)
    /\ UNCHANGED <<repo, backend, enabled, defs, committed, writes, faults, template, status, mutex>>

\* calls, writes, returns and cancellations
NextCancel ==
    \/ \E c \in enabled, def \in defs : ManagerExecute(c, def) /\ UNCHANGED <<template, status, mutex>>
    \/ \E c \in enabled, result \in Results : ManagerReturn(c, result) /\ UNCHANGED <<template, status, mutex>>
    \/ \E c \in enabled : WorkWrite(c, Bound(c)) /\ UNCHANGED <<template, status, mutex>>
    \/ \E c \in enabled, k \in 1..MaxDepth : Cancel(c, k)

SpecCancel == Init /\ [][NextCancel]_vars

\* the calls of a cancel event that had started a transaction
DroppedStarters == {i \in 1..Len(last.calls) : last.calls[i].created_tx}

\* C31: when the future of an execute call is dropped while its work runs,
\* the engine issues no statement at all, so neither COMMIT nor ROLLBACK,
\* for the transactions the dropped calls had started: nothing is committed
\* by the drop, and COMMIT or ROLLBACK is only ever issued by a call that is
\* still running and returns, which a dropped call no longer is.
C31_NoCleanupOnCancel ==
    /\ [](last.event = "cancel" =>
            /\ last.stmts = <<>>
            /\ Len(frames[last.chain]) = last.level - 1
            /\ \A i \in DroppedStarters :
                  last.calls[i].conn \in DOMAIN conns =>
                     last.calls[i].conn \in Range(store[TaskLocal(last.chain)].stack))
    /\ [][last'.event = "cancel" => committed' = committed]_vars
    /\ [][(last'.event \in {"exit", "cancel"} /\ Issued(last'.stmts, EndSqls)) =>
            /\ last'.event = "exit"
            /\ frames[last'.call.chain] # <<>>
            /\ Last(frames[last'.call.chain]).created_tx
            /\ Len(frames'[last'.call.chain]) = Len(frames[last'.call.chain]) - 1]_vars

\* the future of a root call that began a transaction and wrote a row in it
\* was dropped: the connection is gone, the row is lost, nothing was issued
C31_Witness ==
    /\ last.event = "cancel" /\ last.level = 1
    /\ last.calls[1].created_tx /\ last.calls[1].rows # {}
    /\ last.calls[1].conn \notin DOMAIN conns
    /\ committed = {} /\ last.stmts = <<>>

\* C32: the store of a chain exists exactly while one of its execute calls
\* runs.  The first call of the chain is the root call, whatever its
\* propagation, and creates the store; nested calls are never root and find
\* the store there; when the root call has returned the chain has no store,
\* so a repository operation made outside every call sees no stack top and
\* uses the connection of its own repository, outside any transaction.
C32_StoreLifetime ==
    /\ [](/\ \A c \in Chains :
                /\ frames[c] = <<>> => store[TaskLocal(c)] = NoScope
                /\ frames[c] # <<>> => store[TaskLocal(c)].init
          /\ last.event \in {"enter", "exit"} =>
                (last.call.root <=> last.call.level = 1)
          /\ (IsOp /\ ~last.inside) =>
                /\ last.top = NoConn
                /\ last.conn = repo[last.chain]
                /\ ~last.inTx)
    /\ [][\A c \in Chains :
            (frames[c] # <<>> /\ Len(frames'[c]) > Len(frames[c])) =>
                /\ Last(frames'[c]).stackAtEntry = store[TaskLocal(c)].stack
                /\ Last(frames'[c]).depthAtEntry = store[TaskLocal(c)].depth
                /\ ~Last(frames'[c]).root]_vars

\* a root call whose COMMIT or ROLLBACK failed left its connection on the
\* stack, and the store went with the call all the same
C32_Witness ==
    /\ last.event = "exit" /\ last.call.root /\ last.call.created_tx
    /\ last.stack # <<>>
    /\ store[TaskLocal(last.call.chain)] = NoScope

(***************************************************************************)
(* Repository::find_by_id and find_by_field read by read: the query, then  *)
(* the rows one after another, each mapped by the RowAdapter.              *)
(***************************************************************************)
\* how many rows a query may yield
MaxFetch == 3

\* what reading one row comes to: "row" is fetched and mapped, "unmappable"
\* is fetched and refused by RowAdapter::from_row, "error" fails in the driver
FetchOutcomes == {"row", "unmappable", "error"}

RECURSIVE SeqsUpTo(_, _)
SeqsUpTo(S, n) ==
    IF n = 0 THEN {<<>>}
    ELSE LET shorter == SeqsUpTo(S, n - 1)
         IN shorter \cup {Append(q, x) : q \in {r \in shorter : Len(r) = n - 1}, x \in S}

\* Ok(entities): the positions of the rows returned
Found(items) == [tag |-> "Ok", why |-> "", src |-> 0, items |-> items]
\* RepoError::backend(e) / RepoError::mapping(e) of a read
ReadError(tag) == [tag |-> tag, why |-> "read", src |-> 0, items |-> <<>>]

\* libsql find_by_id: if let Ok(Some(row)) = rows.next().await { from_row? }
\* else { Ok(None) }
LibsqlFindById(queryOk, rows) ==
    IF ~queryOk THEN ReadError("Backend")
    ELSE IF rows = <<>> \/ rows[1] = "error" THEN Found(<<>>)
    ELSE IF rows[1] = "unmappable" THEN ReadError("Mapping")
    ELSE Found(<<1>>)

\* libsql find_by_field: while let Ok(Some(row)) = rows.next().await
\* { entities.push(from_row?) }; Ok(entities)
RECURSIVE LibsqlCollect(_, _, _)
LibsqlCollect(rows, i, entities) ==
    IF i > Len(rows) \/ rows[i] = "error" THEN Found(entities)
    ELSE IF rows[i] = "unmappable" THEN ReadError("Mapping")
    ELSE LibsqlCollect(rows, i + 1, Append(entities, i))

LibsqlFindByField(queryOk, rows) ==
    IF ~queryOk THEN ReadError("Backend") ELSE LibsqlCollect(rows, 1, <<>>)

\* rows.iter().map(|row| adapter.from_row(row)).collect::<RepoResult<Vec<T>>>()
RECURSIVE MapRows(_, _, _)
MapRows(rows, i, entities) ==
    IF i > Len(rows) THEN Found(entities)
    ELSE IF rows[i] = "unmappable" THEN ReadError("Mapping")
    ELSE MapRows(rows, i + 1, Append(entities, i))

\* mysql exec_first / postgres query_opt: the driver reads the first row
\* inside the call, whose error is returned by ?
DriverFindById(queryOk, rows) ==
    IF ~queryOk THEN ReadError("Backend")
    ELSE IF rows = <<>> THEN Found(<<>>)
    ELSE IF rows[1] = "error" THEN ReadError("Backend")
    ELSE MapRows(SubSeq(rows, 1, 1), 1, <<>>)

\* mysql exec / postgres query: the driver collects all rows inside the
\* call, whose error is returned by ?
DriverFindByField(queryOk, rows) ==
    IF ~queryOk \/ "error" \in Range(rows) THEN ReadError("Backend")
    ELSE MapRows(rows, 1, <<>>)

FindByIdOf(b, queryOk, rows) ==
    IF b = "libsql" THEN LibsqlFindById(queryOk, rows) ELSE DriverFindById(queryOk, rows)

FindByFieldOf(b, queryOk, rows) ==
    IF b = "libsql" THEN LibsqlFindByField(queryOk, rows)
    ELSE DriverFindByField(queryOk, rows)

\* a find returned: what the query and the rows came to, and the result
Fetched(op, queryOk, rows, result) ==
    [event |-> "find", op |-> op, query |-> queryOk, rows |-> rows, result |-> result]

\* a select by key yields at most one row
FindById(queryOk, rows) ==
    /\ Len(rows) <= 1
    /\ last' = Fetched("find_by_id", queryOk, rows, FindByIdOf(backend, queryOk, rows))
    /\ UNCHANGED <<backend, enabled, defs, store, frames, conns, committed, writes,
                   faults, repo, template, status, mutex>>

FindByField(queryOk, rows) ==
    /\ last' = Fetched("find_by_field", queryOk, rows,
                       FindByFieldOf(backend, queryOk, rows))
    /\ UNCHANGED <<backend, enabled, defs, store, frames, conns, committed, writes,
                   faults, repo, template, status, mutex>>

NextFind ==
    \/ \E queryOk \in BOOLEAN, rows \in SeqsUpTo(FetchOutcomes, MaxFetch) :
          FindById(queryOk, rows)
    \/ \E queryOk \in BOOLEAN, rows \in SeqsUpTo(FetchOutcomes, MaxFetch) :
          FindByField(queryOk, rows)

SpecFind == Init /\ [][NextFind]_vars

\* the first row whose reading failed, 0 when every row was read and mapped
FirstFailure(rows) ==
    IF \E i \in 1..Len(rows) : rows[i] # "row"
    THEN CHOOSE i \in 1..Len(rows) :
            rows[i] # "row" /\ \A j \in 1..(i - 1) : rows[j] = "row"
    ELSE 0

\* C33: find_by_id and find_by_field return Err when the query failed or
\* when reading a row failed, be it the fetch in the driver or the mapping
\* by the adapter; an Ok result holds every row of the query, in order.
C33_ReadErrorsReturned ==
    last.event = "find" =>
       IF ~last.query \/ FirstFailure(last.rows) # 0
       THEN IsErr(last.result)
       ELSE last.result = Found([i \in 1..Len(last.rows) |-> i])

(***************************************************************************)
(* TransactionStatus: the flags new and rollback_only.                     *)
(***************************************************************************)
\* a setter that flipped the flag
SetRollbackOnlyToggles(st) == [st EXCEPT !.rollback_only = ~@]

\* set_rollback_only(&mut self): self.rollback_only = true
SetRollbackOnlyOf(st) == [st EXCEPT !.rollback_only = TRUE]

\* TransactionStatus::new(is_new)
TransactionStatusNew(is_new) == [made |-> TRUE, new |-> is_new, rollback_only |-> FALSE]

\* a method of the status object h was called and returned ret
StatusCall(op, h, ret) == [event |-> "status", op |-> op, handle |-> h, ret |-> ret]

Unit == "()"

StatusNew(h, is_new) ==
    /\ ~status[h].made
    /\ status' = [status EXCEPT ![h] = TransactionStatusNew(is_new)]
    /\ last' = StatusCall("new", h, Unit)
    /\ UNCHANGED <<backend, enabled, defs, store, frames, conns, committed, writes,
                   faults, repo, template, mutex>>

SetRollbackOnly(h) ==
    /\ status[h].made
    /\ status' = [status EXCEPT ![h] = SetRollbackOnlyOf(@)]
    /\ last' = StatusCall("set_rollback_only", h, Unit)
    /\ UNCHANGED <<backend, enabled, defs, store, frames, conns, committed, writes,
                   faults, repo, template, mutex>>

IsNewTransaction(h) ==
    /\ status[h].made
    /\ last' = StatusCall("is_new_transaction", h, status[h].new)
    /\ UNCHANGED <<backend, enabled, defs, store, frames, conns, committed, writes,
                   faults, repo, template, status, mutex>>

IsRollbackOnly(h) ==
    /\ status[h].made
    /\ last' = StatusCall("is_rollback_only", h, status[h].rollback_only)
    /\ UNCHANGED <<backend, enabled, defs, store, frames, conns, committed, writes,
                   faults, repo, template, status, mutex>>

NextStatus ==
    \/ \E h \in StatusIds, is_new \in BOOLEAN : StatusNew(h, is_new)
    \/ \E h \in StatusIds : SetRollbackOnly(h)
    \/ \E h \in StatusIds : IsNewTransaction(h)
    \/ \E h \in StatusIds : IsRollbackOnly(h)

SpecStatus == Init /\ [][NextStatus]_vars

\* C34: a TransactionStatus is made with rollback_only false, for is_new
\* true and for is_new false; set_rollback_only makes it true and no
\* operation makes it false again; set_rollback_only on a status that is
\* already rollback-only changes nothing, and no operation changes what
\* is_new_transaction returns; the getters return the flags.
C34_RollbackOnlyMonotone ==
    /\ [](last.event = "status" =>
            /\ last.op = "set_rollback_only" => status[last.handle].rollback_only
            /\ last.op = "is_new_transaction" => last.ret = status[last.handle].new
            /\ last.op = "is_rollback_only" => last.ret = status[last.handle].rollback_only)
    /\ [][\A h \in StatusIds :
            IF status[h].made
            THEN /\ status'[h].made
                 /\ status'[h].new = status[h].new
                 /\ status[h].rollback_only => status'[h] = status[h]
            ELSE status'[h].made => ~status'[h].rollback_only]_vars

\* a status made with is_new true and one made with is_new false, both set
\* rollback-only, the second one twice
C34_Witness ==
    /\ \E h, g \in StatusIds :
          /\ status[h].made /\ status[h].new /\ status[h].rollback_only
          /\ status[g].made /\ ~status[g].new /\ status[g].rollback_only
          /\ last = StatusCall("set_rollback_only", g, Unit)

\* C35: whether the transaction is committed or rolled back is decided by
\* the result of the work of the call that started it, and by nothing else:
\* COMMIT is issued exactly when that work returned Ok.  A joined call
\* issues nothing and returns what its work returned, no manager makes or
\* marks a TransactionStatus, and when the call that started the
\* transaction returns Ok right after a joined call returned Err, the rows
\* the failed joined work wrote are committed with the transaction.
C35_OuterResultDecides ==
    /\ [](/\ Returned("start") =>
                /\ Issued(last.stmts, {"COMMIT"}) <=> last.workResult = OkResult
                /\ Issued(last.stmts, {"ROLLBACK"}) <=> IsErr(last.workResult)
          /\ Returned("join") =>
                /\ last.stmts = <<>>
                /\ last.result = last.workResult
          /\ \A h \in StatusIds : ~status[h].made)
    /\ [][(/\ last.event = "exit" /\ last.invoked = 1
           /\ last.call.decision = "join" /\ IsErr(last.result)
           /\ last'.event = "exit" /\ last'.call.created_tx
           /\ last'.workResult = OkResult /\ last'.result = OkResult)
          => /\ Issued(last'.stmts, {"COMMIT"})
             /\ last.call.rows \subseteq committed']_vars

\* C36: a savepoint statement that fails is never surfaced.  A call that
\* takes the savepoint branch always invokes work, also when its SAVEPOINT
\* failed; when work has returned it issues one RELEASE or ROLLBACK TO
\* SAVEPOINT, returns exactly what work returned, also when that statement
\* failed, and leaves the savepoint depth as it found it.
C36_SavepointFailureSilent ==
    /\ last.event \in {"enter", "exit"} /\ last.call.decision = "savepoint"
          => /\ last.invoked = 1
             /\ last.call.used_savepoint
    /\ last.event = "enter" /\ last.call.decision = "savepoint"
          => /\ Len(last.stmts) = 1 /\ last.stmts[1].sql = "SAVEPOINT sp"
             /\ last.depth = last.call.depthAtEntry + 1
    /\ Returned("savepoint")
          => /\ last.result = last.workResult
             /\ Len(last.stmts) = 1
             /\ last.stmts[1].sql = (IF last.workResult = OkResult
                                    THEN "RELEASE SAVEPOINT sp"
                                    ELSE "ROLLBACK TO SAVEPOINT sp")
             /\ last.depth = last.call.depthAtEntry
             /\ store[TaskLocal(last.call.chain)].depth = last.call.depthAtEntry

\* work returned Ok, RELEASE SAVEPOINT failed, and execute returned Ok with
\* the depth back at what the call found
C36_Witness ==
    /\ Returned("savepoint") /\ last.workResult = OkResult
    /\ last.stmts[1].sql = "RELEASE SAVEPOINT sp" /\ ~last.stmts[1].ok
    /\ last.result = OkResult
    /\ store[TaskLocal(last.call.chain)].depth = last.call.depthAtEntry

\* C37: an execute call that returns without having invoked work (Never
\* inside a transaction, or a connection or BEGIN that failed) returns an
\* error and leaves everything as it found it: the store of the chain with
\* its stack and depth, the running calls, the connections and the committed
\* rows; it issues no COMMIT, no ROLLBACK and no savepoint statement.
C37_EarlyErrorLeavesStore ==
    /\ [](last.event = "exit" /\ last.invoked = 0 =>
            /\ IsErr(last.result)
            /\ last.call.decision \in {"reject", "start"}
            /\ last.stack = last.call.stackAtEntry
            /\ last.depth = last.call.depthAtEntry
            /\ store[TaskLocal(last.call.chain)].stack = last.call.stackAtEntry
            /\ store[TaskLocal(last.call.chain)].depth = last.call.depthAtEntry
            /\ ~Issued(last.stmts, EndSqls \cup SavepointSqls))
    /\ [][last'.event = "exit" /\ last'.invoked = 0 =>
            /\ store' = store
            /\ frames' = frames
            /\ conns' = conns
            /\ committed' = committed]_vars

\* BEGIN failed for a call made inside the work of a Supports call: the
\* store is there, its stack as empty as before
C37_Witness ==
    /\ last.event = "exit" /\ last.invoked = 0
    /\ last.call.decision = "start" /\ ~last.call.root
    /\ Failed(last.stmts, BeginSqls)
    /\ store[TaskLocal(last.call.chain)].init
    /\ store[TaskLocal(last.call.chain)].stack = <<>>

(***************************************************************************)
(* A program that nests transactional calls three deep.                    *)
(***************************************************************************)
InitNested == Start({1}, NestedDefinitions, 0)

NextNested ==
    \/ \E c \in enabled, def \in defs :
          ManagerExecute(c, def) /\ UNCHANGED <<template, status, mutex>>
    \/ \E c \in enabled, result \in {OkResult} \cup UNION {WorkErrors(k) : k \in 1..MaxNesting} :
          ManagerReturn(c, result) /\ UNCHANGED <<template, status, mutex>>
    \/ \E c \in enabled : WorkWrite(c, Bound(c)) /\ UNCHANGED <<template, status, mutex>>

SpecNested == InitNested /\ [][NextNested]_vars

\* the running calls of chain c that opened a savepoint, innermost last
SavepointCalls(c) == SelectSeq(frames[c], LAMBDA call : call.used_savepoint)
\* the number in the name of the savepoint a call opened: sp<depth + 1>
NameOf(call) == call.depthAtEntry + 1

\* the savepoints the database holds in the transaction of chain c
OpenSavepoints(c) ==
    IF store[TaskLocal(c)].stack = <<>> THEN <<>>
    ELSE conns[Last(store[TaskLocal(c)].stack)].sps

\* C38: savepoints are well nested: with no statement failing, the
\* savepoints open in the transaction of a chain are sp1..spK in the order
\* of their opening, K being the current depth, so that a name is set again
\* only when no open savepoint has it.
C38_OpenSavepointsDistinct ==
    faults = 0 =>
       \A c \in Chains :
          /\ Len(OpenSavepoints(c)) = store[TaskLocal(c)].depth
          /\ \A i \in 1..Len(OpenSavepoints(c)) : OpenSavepoints(c)[i].n = i

\* C38, amended: the savepoints of the running calls are well nested.  The
\* calls that have opened a savepoint and not yet returned hold sp1..spK in
\* the order of their opening, K being the current depth, and with no
\* statement failing the database holds a savepoint of each of these names;
\* a call names in its RELEASE or ROLLBACK TO SAVEPOINT statement the
\* savepoint it opened, which is spK, the one opened last; and a call that
\* opens a savepoint uses a name that no running call holds.  A savepoint
\* that was rolled back to stays open in the database, so its name may be
\* set again on top of it.
C38_WellNested ==
    /\ \A c \in Chains :
          /\ Len(SavepointCalls(c)) = store[TaskLocal(c)].depth
          /\ \A i \in 1..Len(SavepointCalls(c)) :
                /\ NameOf(SavepointCalls(c)[i]) = i
                /\ faults = 0 =>
                      LastSavepoint(OpenSavepoints(c), i, Len(OpenSavepoints(c))) > 0
    /\ last.event = "enter" /\ last.call.decision = "savepoint"
          => /\ last.stmts = <<[sql |-> "SAVEPOINT sp", n |-> NameOf(last.call),
                                ok |-> last.stmts[1].ok]>>
             /\ NameOf(last.call) = last.depth
             /\ \A i \in 1..(last.call.level - 1) :
                   frames[last.call.chain][i].used_savepoint
                      => NameOf(frames[last.call.chain][i]) # NameOf(last.call)
    /\ Returned("savepoint")
          => /\ Len(last.stmts) = 1
             /\ last.stmts[1].sql \in {"RELEASE SAVEPOINT sp", "ROLLBACK TO SAVEPOINT sp"}
             /\ last.stmts[1].n = NameOf(last.call)
             /\ NameOf(last.call) = last.depth + 1
             /\ \A i \in 1..Len(frames[last.call.chain]) :
                   frames[last.call.chain][i].used_savepoint
                      => NameOf(frames[last.call.chain][i]) < NameOf(last.call)

\* the call that opened sp2 inside the call that opened sp1 closes sp2, and
\* sp1 is still open
C38_Witness ==
    /\ Returned("savepoint") /\ last.call.level = 3
    /\ last.stmts[1].n = 2 /\ last.stmts[1].ok
    /\ Len(SavepointCalls(last.call.chain)) = 1
    /\ NameOf(SavepointCalls(last.call.chain)[1]) = 1
    /\ store[TaskLocal(last.call.chain)].depth = 1

(***************************************************************************)
(* The MySQL manager step by step: MY_TX_CONN holds Arc<Mutex<Conn>>, and  *)
(* the manager and every repository operation lock it for the time of      *)
(* their statement.  Work may run several futures at once (join!), so a    *)
(* write, a find and the SAVEPOINT of a nested execute call may wait for   *)
(* the connection together; execute goes on after work only when all the   *)
(* futures of work are done.                                               *)
(***************************************************************************)
\* who locks the connection: execute for its SAVEPOINT, execute for its
\* COMMIT / ROLLBACK / RELEASE / ROLLBACK TO, a repository write, a find
Lockers == {"savepoint", "end", "write", "find"}

\* a guard that lived to the end of execute
GuardAfterSavepointHeld == "savepoint"

\* the holder after the SAVEPOINT block: the guard is a local of the
\* if-let block and is dropped at its end, before f(ctx) is called
GuardAfterSavepoint == NoHolder

\* MY_TX_CONN.with(|c| c.borrow().as_ref().cloned()) is Some
InTx(c) == store[TaskLocal(c)].init /\ store[TaskLocal(c)].stack # <<>>

Idle == mutex.holder = NoHolder /\ mutex.queue = <<>>
Waiting(who) == who \in Range(mutex.queue)

\* the futures of work that may call arc.lock().await now
MayLock(c, who) ==
    /\ c \in enabled /\ InTx(c) /\ Running(c)
    /\ ~Waiting(who) /\ mutex.holder # who
    /\ ~Waiting("end") /\ mutex.holder # "end"
    /\ CASE who = "savepoint" ->
              /\ Len(frames[c]) < DepthLimit(c)
              /\ Len(conns[Last(store[TaskLocal(c)].stack)].sps) < SavepointLimit
         [] who = "end" ->
              /\ Idle
              /\ Last(frames[c]).created_tx \/ Last(frames[c]).used_savepoint
         [] who = "write" -> writes < MaxRows
         [] OTHER -> TRUE

\* arc.lock().await is called: the caller queues for the mutex
Lock(c, who) ==
    /\ MayLock(c, who)
    /\ mutex' = [mutex EXCEPT !.queue = Append(@, who)]
    /\ UNCHANGED <<backend, enabled, defs, store, frames, last, conns, committed,
                   writes, faults, repo, template, status>>

\* the mutex is free and is handed to the first in the queue
Acquire ==
    /\ mutex.holder = NoHolder /\ mutex.queue # <<>>
    /\ mutex' = [holder |-> Head(mutex.queue), queue |-> Tail(mutex.queue)]
    /\ UNCHANGED <<backend, enabled, defs, store, frames, last, conns, committed,
                   writes, faults, repo, template, status>>

\* the holder has run its statement and its guard is dropped
Unlock(after) == mutex' = [mutex EXCEPT !.holder = after]

\* conn.query_drop("SAVEPOINT spN"), the depth is incremented, the block
\* ends, f(ctx) is called
LockedSavepoint(c) ==
    /\ mutex.holder = "savepoint"
    /\ \E def \in defs : CallSavepoint(c, def)
    /\ Unlock(GuardAfterSavepoint)
    /\ UNCHANGED <<template, status>>

\* COMMIT / ROLLBACK or RELEASE / ROLLBACK TO SAVEPOINT under the lock
LockedEnd(c) ==
    /\ mutex.holder = "end"
    /\ \E result \in Results : ReturnTx(c, result) \/ ReturnSavepoint(c, result)
    /\ Unlock(NoHolder)
    /\ UNCHANGED <<template, status>>

\* a repository write inside the transaction: lock, statement, drop
LockedWrite(c) ==
    /\ mutex.holder = "write"
    /\ WorkWrite(c, Bound(c))
    /\ Unlock(NoHolder)
    /\ UNCHANGED <<template, status>>

LockedFind(c) ==
    /\ mutex.holder = "find"
    /\ Find(c, Bound(c))
    /\ Unlock(NoHolder)
    /\ UNCHANGED <<template, status>>

\* the steps of execute that take no lock: the direct, rejected, starting
\* and joined calls, and the return of a call that has nothing to end.  The
\* execute calls of a chain follow one another: none begins while another
\* is at its SAVEPOINT or at its end.
Unlocked(c) ==
    /\ ~Waiting("end") /\ mutex.holder # "end"
    /\ ~Waiting("savepoint") /\ mutex.holder # "savepoint"
    /\ \/ \E def \in defs : CallDirect(c, def)
       \/ \E def \in defs : CallReject(c, def)
       \/ \E def \in defs : CallStart(c, def)
       \/ \E def \in defs : CallJoin(c, def)
       \/ Idle /\ \E result \in Results : ReturnPlain(c, result)
    /\ UNCHANGED <<template, status, mutex>>

NextLock ==
    \/ \E c \in enabled, who \in Lockers : Lock(c, who)
    \/ Acquire
    \/ \E c \in enabled : LockedSavepoint(c)
    \/ \E c \in enabled : LockedEnd(c)
    \/ \E c \in enabled : LockedWrite(c)
    \/ \E c \in enabled : LockedFind(c)
    \/ \E c \in enabled : Unlocked(c)

InitLock == Start({1}, PlainDefinitions, MaxFaults) /\ backend = "mysql"

\* the mutex wakes its waiters in order, and every statement awaited under
\* the lock completes
SpecLock ==
    /\ InitLock /\ [][NextLock]_vars
    /\ WF_vars(Acquire)
    /\ \A c \in Chains :
          /\ WF_vars(LockedSavepoint(c))
          /\ WF_vars(LockedEnd(c))
          /\ WF_vars(LockedWrite(c))
          /\ WF_vars(LockedFind(c))

\* C39: the MySQL manager does not hold the lock of the connection while
\* work runs.  When work is invoked execute holds no lock, it asks for the
\* lock of its COMMIT, ROLLBACK, RELEASE or ROLLBACK TO only when work is
\* done with the connection, no repository operation runs while execute
\* holds the lock, and whoever waits for the lock gets it and gives it back:
\* no execute call and no repository operation waits for ever.
C39_LockNotHeldAcrossWork ==
    /\ [](mutex.holder \in Lockers \cup {NoHolder} /\ ~Waiting(mutex.holder))
    /\ [][last'.event = "enter" /\ last' # last
            => mutex'.holder \notin {"savepoint", "end"}]_vars
    /\ [][Waiting("end")' /\ ~Waiting("end") => Idle]_vars
    /\ [][last'.event \in {"read", "write"} /\ last' # last
            => mutex.holder \in {"write", "find"} /\ mutex'.holder = NoHolder]_vars
    /\ \A who \in Lockers : Waiting(who) ~> mutex.holder = who
    /\ \A who \in Lockers : mutex.holder = who ~> mutex.holder = NoHolder

\* a nested call holds the lock for its SAVEPOINT while a write and a find
\* of the work around it wait for the connection
C39_Witness ==
    /\ mutex.holder = "savepoint"
    /\ Waiting("write") /\ Waiting("find")
    /\ Len(frames[1]) = 1 /\ frames[1][1].created_tx

====
